---- MODULE Spec2Model ----
(***************************************************************************)
(* State-machine model of the upload and download orchestration of the    *)
(* lfview API client (lfview/client/session.py, lfview/client/utils.py).  *)
(***************************************************************************)
EXTENDS Integers, Sequences, FiniteSets, TLC

(* ---------------------------------------------------------------------- *)
(* Bounds                                                                 *)
(* ---------------------------------------------------------------------- *)
MaxCalls == 2
MaxFields == 2
MaxPointers == 2
MaxLength == 7
MaxChunkSize == 4

(* ---------------------------------------------------------------------- *)
(* Values                                                                 *)
(* ---------------------------------------------------------------------- *)
\* The resource objects of the graph handed to upload; 1 is the root.
Res == {1, 2, 3}
Root == 1

\* None, a URL string, a links mapping (whose 'self' entry is UrlV(id)).
NoneV == [t |-> "none", id |-> 0]
UrlV(n) == [t |-> "url", id |-> n]
LinksV(n) == [t |-> "links", id |-> n]
\* A pointer-field value that is a resource object.
ResV(r) == [t |-> "res", id |-> r]

\* links['self']
SelfOf(l) == UrlV(l.id)

\* URL space: identity the server gives resource r on POST, links the caller
\* set on r beforehand, URL r was downloaded from, collection URL of r's
\* type, and a URL string held in a pointer field.
ServerId(r) == r
PresetId(r) == 10 + r
DownloadId(r) == 20 + r
CollectionId(r) == 30 + r
ThumbnailId(n) == 50 + n
ForeignUrl == UrlV(40)

(* ---------------------------------------------------------------------- *)
(* State                                                                  *)
(* ---------------------------------------------------------------------- *)
VARIABLES
    fields,     \* resource -> sequence of its pointer values, in sorted field-name order
    obj,        \* resource -> its private attributes (_url, _links, _touched, ...)
    tasks,      \* every handle an executor returned, by handle number
    executor,   \* "sync" (SynchronousExecutor) or "pool" (ThreadPoolExecutor)
    upc,        \* position of the upload call
    ulist,      \* resources_to_upload
    uidx,       \* position of the for loop in resources_to_upload
    ucomplete,  \* uploads_complete
    fileq,      \* file_resp_futures
    dsnap,      \* the copy of file_resp_futures the drain loop iterates
    wlog,       \* requests sent during the current call
    sublog,     \* resources whose write task was submitted during the current call
    finlog,     \* resources finalized during the current call, with the handle used
    uret,       \* value returned by the current call
    uerr,       \* error raised by the current call
    calls,      \* number of upload calls started
    hist,       \* what is remembered of the previous call
    thumbnail,  \* the thumbnail option the caller passes to upload
    invalid,    \* the resources whose validate() raises
    unhashable, \* the resources with an unhashable value in a list of pointers
    ushut,      \* executor.shutdown was called in the current upload call
    store       \* URL -> the body the transport holds for it

uvars == <<fields, obj, tasks, executor, upc, ulist, uidx, ucomplete, fileq,
           dsnap, wlog, sublog, finlog, uret, uerr, calls, hist, thumbnail,
           invalid, unhashable, ushut, store>>

VARIABLES
    server,             \* URL -> the payload the server holds: its pointer URLs and its type
    options,            \* the arguments of the download call
    lookup_dict,        \* URL key -> None, handle, payload or failed-URL string
    dtasks,             \* every handle the executor returned to download, by handle number
    dpc,                \* position of the download call
    dcopy,              \* lookup_dict.copy(), the snapshot the for loop iterates
    didx,               \* position of the for loop in the sorted snapshot
    downloads_complete, \* downloads_complete
    built,              \* URL key -> what lookup_dict holds after lines 606-614
    derr,               \* error raised by the download call
    gets,               \* URL -> how many GET requests were sent to it
    dshut               \* executor.shutdown was called in the download call

dvars == <<server, options, lookup_dict, dtasks, dpc, dcopy, didx,
           downloads_complete, built, derr, gets, dshut>>

\* utils.upload_array and utils.upload_image
VARIABLES
    ckind,      \* "array" (upload_array) or "image" (upload_image)
    length,     \* length, the number of bytes of the payload
    chunk_size, \* chunk_size
    start,      \* start, the loop variable of range(0, length, chunk_size)
    puts,       \* the requests session.put has received, in order
    cres,       \* res, the response of the last upload_chunk
    cpc,        \* position of the call
    cret        \* what the call returned

cvars == <<ckind, length, chunk_size, start, puts, cres, cpc, cret>>

\* calls of the functions of utils.py on the resources of a graph
VARIABLES
    tcall       \* the last call: the function, its arguments and what it returned

tvars == <<tcall>>

\* the state of the calls that are neither upload nor download
xvars == <<cvars, tvars>>

(* ---------------------------------------------------------------------- *)
(* utils.py                                                               *)
(* ---------------------------------------------------------------------- *)
\* a variant of line 165 that keeps the last occurrence of a value
RECURSIVE OrderedUniqueLast(_)
OrderedUniqueLast(s) ==
    IF s = << >> THEN << >>
    ELSE LET rest == OrderedUniqueLast(SubSeq(s, 2, Len(s)))
         IN IF \E i \in 1..Len(rest) : rest[i] = s[1]
            THEN rest ELSE <<s[1]>> \o rest
\* list(OrderedDict.fromkeys(children))
RECURSIVE OrderedUnique(_)
OrderedUnique(s) ==
    IF s = << >> THEN << >>
    ELSE LET init == OrderedUnique(SubSeq(s, 1, Len(s) - 1))
             last == s[Len(s)]
         IN IF \E i \in 1..Len(init) : init[i] = last
            THEN init ELSE Append(init, last)

RECURSIVE compute_children(_, _)
RECURSIVE walk_fields(_, _, _)
\* a variant of lines 156-164 that appends the value before it recurses
walk_fields_parent_first(f, r, i) ==
    IF i > Len(f[r]) THEN << >>
    ELSE LET v == f[r][i]
         IN <<v>> \o (IF v.t = "res" THEN compute_children(f, v.id) ELSE << >>)
            \o walk_fields(f, r, i + 1)
\* the body of the for loop of compute_children, from field value i on
walk_fields(f, r, i) ==
    IF i > Len(f[r]) THEN << >>
    ELSE LET v == f[r][i]
         IN (IF v.t = "res" THEN compute_children(f, v.id) ELSE << >>)
            \o <<v>> \o walk_fields(f, r, i + 1)

compute_children(f, r) == OrderedUnique(walk_fields(f, r, 1))

\* getattr(resource, '_touched', True)
Touched(o) == o.touched # "false"

\* a variant of lines 202-208 for which no resource object counts as uploaded
is_uploaded_never(o, v) == v.t = "url"
\* a variant of line 208 that takes a flag that was never set for a clear one
is_uploaded_unset_clear(o, v) ==
    IF v.t = "url" THEN TRUE
    ELSE IF o[v.id].url = NoneV THEN FALSE
    ELSE o[v.id].touched # "true"
is_uploaded(o, v) ==
    IF v.t = "url" THEN TRUE
    ELSE IF o[v.id].url = NoneV THEN FALSE
    ELSE ~Touched(o[v.id])

\* a variant that leaves the dirty flag as it is
process_uploaded_resource_dirty(rec, url) ==
    [rec EXCEPT !.url = IF rec.url = NoneV THEN url ELSE rec.url,
                !.future_url = "none",
                !.observer = TRUE,
                !.listeners = IF rec.observer THEN @ ELSE @ + 1]
\* a variant that installs no change observer
process_uploaded_resource_unobserved(rec, url) ==
    [rec EXCEPT !.url = IF rec.url = NoneV THEN url ELSE rec.url,
                !.future_url = "none",
                !.touched = "false"]
\* a variant of lines 189-195 that installs an observer on every call
process_uploaded_resource_reinstalls(rec, url) ==
    [rec EXCEPT !.url = IF rec.url = NoneV THEN url ELSE rec.url,
                !.future_url = "none",
                !.observer = TRUE,
                !.listeners = IF @ = 0 THEN 1 ELSE 2,
                !.touched = "false"]
\* lines 186-196; properties.observer registers one more listener on the
\* resource, and _change_observer keeps what it returned
process_uploaded_resource(rec, url) ==
    [rec EXCEPT !.url = IF rec.url = NoneV THEN url ELSE rec.url,
                !.future_url = "none",
                !.observer = TRUE,
                !.listeners = IF rec.observer THEN @ ELSE @ + 1,
                !.touched = "false"]

\* touch(resource), as called by the change observer
touch(rec) == [rec EXCEPT !.touched = "true"]

(* ---------------------------------------------------------------------- *)
(* utils.py: upload_chunk, upload_array, upload_image                      *)
(* ---------------------------------------------------------------------- *)
Min(a, b) == IF a <= b THEN a ELSE b
\* a variant of lines 31-35 that names the byte after the chunk as its last
ContentRangeToStop(a, b, total) == [first |-> a, last |-> b, total |-> total]
\* lines 31-35: 'bytes {start}-{stop}/{total}'.format(start, stop - 1, total)
ContentRange(a, b, total) == [first |-> a, last |-> b - 1, total |-> total]
\* line 55 and line 76
ContentType(kind) == IF kind = "array" THEN "application/octet-stream" ELSE "image/png"
\* arr_bytes[start:stop] and img.seek(start); img.read(stop - start): the
\* bytes the chunk carries, from the first to before the second
Slice(a, b, total) == <<Min(a, total), Min(b, total)>>
\* lines 23-38: the request upload_chunk sends, and whether it was answered
\* with success
upload_chunk(kind, a, b, total, okv) ==
    [content_length |-> b - a, content_type |-> ContentType(kind),
     content_range |-> ContentRange(a, b, total), dat |-> Slice(a, b, total), ok |-> okv]
NoResponse == [n |-> 0, ok |-> FALSE]
\* the response of the n-th request
Response(n, okv) == [n |-> n, ok |-> okv]

\* the arguments of a call of upload_array or upload_image
ChunkInit ==
    /\ ckind \in {"array", "image"}
    /\ length \in 0..MaxLength
    /\ chunk_size \in 1..MaxChunkSize
    /\ start = 0
    /\ puts = << >>
    /\ cres = NoResponse
    /\ cpc = "idle"
    /\ cret = NoResponse
\* the state these calls leave unused while another operation runs
ChunksAtRest ==
    /\ ckind = "array"
    /\ length = 0
    /\ chunk_size = 1
    /\ start = 0
    /\ puts = << >>
    /\ cres = NoResponse
    /\ cpc = "idle"
    /\ cret = NoResponse
\* no function of utils.py was called yet
NoCall == [op |-> "none", val |-> NoneV, recursive |-> FALSE, url |-> NoneV,
           result |-> << >>]
Call(op, v, rec, url, result) ==
    [op |-> op, val |-> v, recursive |-> rec, url |-> url, result |-> result]
OthersAtRest == ChunksAtRest /\ tcall = NoCall

\* lines 43-47 and 63-67: the length is taken, the loop starts at 0
ChunkStart ==
    /\ cpc = "idle"
    /\ cpc' = "loop"
    /\ start' = 0
    /\ UNCHANGED <<uvars, dvars, tvars, ckind, length, chunk_size, puts, cres, cret>>

\* lines 47-57 and 67-78: one iteration of the loop
ChunkPut(okv) ==
    /\ cpc = "loop"
    /\ start < length
    /\ LET stop == Min(start + chunk_size, length)
       IN puts' = Append(puts, upload_chunk(ckind, start, stop, length, okv))
    /\ cres' = Response(Len(puts) + 1, okv)
    /\ start' = start + chunk_size
    /\ UNCHANGED <<uvars, dvars, tvars, ckind, length, chunk_size, cpc, cret>>

\* lines 58 and 79: return res; res is unbound when the loop never ran
ChunkReturn ==
    /\ cpc = "loop"
    /\ start >= length
    /\ IF puts = << >>
       THEN cpc' = "raised" /\ UNCHANGED cret
       ELSE cpc' = "returned" /\ cret' = cres
    /\ UNCHANGED <<uvars, dvars, tvars, ckind, length, chunk_size, start, puts, cres>>

NextChunks ==
    \/ ChunkStart
    \/ \E okv \in BOOLEAN : ChunkPut(okv)
    \/ ChunkReturn

(* ---------------------------------------------------------------------- *)
(* Inputs                                                                 *)
(* ---------------------------------------------------------------------- *)
\* Sequences over S of length at most n.
RECURSIVE SeqsUpTo(_, _)
SeqsUpTo(S, n) ==
    IF n = 0 THEN {<< >>}
    ELSE LET shorter == SeqsUpTo(S, n - 1)
         IN shorter \cup {Append(q, x) : q \in {p \in shorter : Len(p) = n - 1}, x \in S}

\* Acyclic graphs: a pointer of resource r holds a later resource or a URL
\* string, no value twice in one resource and the URL string in the last
\* pointer; resource 3 is a file (files.Array, files.Image), which has no
\* pointers and carries a payload.
PointerValues(r) ==
    IF r = 3 THEN {} ELSE {ResV(c) : c \in {c \in Res : c > r}} \cup {ForeignUrl}
Reachable(f, r) ==
    r = Root \/ \E i \in 1..Len(compute_children(f, Root)) : compute_children(f, Root)[i] = ResV(r)
Graphs == {f \in [Res -> SeqsUpTo({ResV(c) : c \in Res} \cup {ForeignUrl}, MaxFields)] :
              /\ \A r \in Res : \A i \in 1..Len(f[r]) : f[r][i] \in PointerValues(r)
              /\ \A r \in Res : \A i, j \in 1..Len(f[r]) : f[r][i] = f[r][j] => i = j
              /\ \A r \in Res : \A i \in 1..Len(f[r]) : f[r][i] = ForeignUrl => i = Len(f[r])
              /\ \A r \in Res : ~Reachable(f, r) => f[r] = << >>}

HasPayload(f, r) == f[r] = << >> /\ r = 3

NewObject ==
    [url |-> NoneV, links |-> NoneV, touched |-> "unset", future_links |-> 0,
     future_url |-> "unset", observer |-> FALSE, listeners |-> 0, thumbnail |-> FALSE]
\* the caller has set _links on the object (tests/test_upload_session.py)
LinkedObject(r) == [NewObject EXCEPT !.links = LinksV(PresetId(r))]
\* the object was built by download(copy=False)
DownloadedObject(r) == process_uploaded_resource(NewObject, UrlV(DownloadId(r)))
\* the file objects of the tests are new or downloaded
PreparedObjects(r) ==
    IF r = 3 THEN {DownloadedObject(r)} ELSE {LinkedObject(r), DownloadedObject(r)}
\* Every object is new, but for at most one that the caller prepared.
InitialObjects ==
    {[r \in Res |-> NewObject]}
    \cup {[r \in Res |-> IF r = p THEN o ELSE NewObject] :
             p \in Res, o \in UNION {PreparedObjects(q) : q \in Res}}

\* an error, with the number of write tasks submitted when it was raised
NoErr == [kind |-> "none", res |-> 0, submitted |-> 0]
Err(k, r, n) == [kind |-> k, res |-> r, submitted |-> n]

\* full scans completed in the current call, and in which scan each resource
\* was submitted and finalized (counted for the inline executor)
NoScans == [r \in Res |-> 0]
NoHist == [lastOk |-> FALSE, lastRet |-> NoneV, startClean |-> FALSE, startRet |-> NoneV,
           mutated |-> {}, start |-> [r \in Res |-> NewObject],
           scans |-> 0, subscan |-> NoScans, finscan |-> NoScans]

(* ---------------------------------------------------------------------- *)
(* utils.py called on the resources of a graph                            *)
(* ---------------------------------------------------------------------- *)
\* what stays as it is while a function of utils.py is applied
UtilsFrame ==
    UNCHANGED <<dvars, cvars, fields, store, unhashable, ushut, tasks, executor, upc, ulist,
                uidx, ucomplete, fileq, dsnap, wlog, sublog, finlog, uret, uerr, calls, hist,
                thumbnail, invalid>>

\* the values a pointer field may hold: a resource object or the URL string
Values == {ResV(r) : r \in Res} \cup {ForeignUrl}

\* a variant of lines 177-181 that touches the children whatever recursive is
touch_recursive_always(f, o, r, recursive) ==
    [q \in Res |->
        IF q = r \/ \E i \in 1..Len(compute_children(f, r)) : compute_children(f, r)[i] = ResV(q)
        THEN touch(o[q])
        ELSE o[q]]
\* utils.touch(resource, recursive), lines 176-181
touch_recursive(f, o, r, recursive) ==
    [q \in Res |->
        IF q = r THEN touch(o[q])
        ELSE IF recursive /\ \E i \in 1..Len(compute_children(f, r)) :
                               compute_children(f, r)[i] = ResV(q)
        THEN touch(o[q])
        ELSE o[q]]

\* the caller assigns resource._url (tests/test_session.py line 166)
AssignUrl(r) ==
    /\ obj[r].url = NoneV
    /\ obj' = [obj EXCEPT ![r].url = UrlV(PresetId(r))]
    /\ tcall' = Call("assign_url", ResV(r), FALSE, UrlV(PresetId(r)), << >>)
    /\ UtilsFrame

\* the caller assigns a field of the resource: every listener that was
\* registered calls touch (utils.py lines 189-195)
AssignField(r) ==
    /\ obj' = IF obj[r].listeners > 0 THEN [obj EXCEPT ![r] = touch(obj[r])] ELSE obj
    /\ tcall' = Call("assign_field", ResV(r), FALSE, NoneV, << >>)
    /\ UtilsFrame

CallIsUploaded(v) ==
    /\ tcall' = Call("is_uploaded", v, FALSE, NoneV, <<is_uploaded(obj, v)>>)
    /\ UNCHANGED obj
    /\ UtilsFrame

CallProcessUploadedResource(r, url) ==
    /\ obj' = [obj EXCEPT ![r] = process_uploaded_resource(obj[r], url)]
    /\ tcall' = Call("process_uploaded_resource", ResV(r), FALSE, url, << >>)
    /\ UtilsFrame

CallTouch(r, recursive) ==
    /\ obj' = touch_recursive(fields, obj, r, recursive)
    /\ tcall' = Call("touch", ResV(r), recursive, NoneV, << >>)
    /\ UtilsFrame

CallComputeChildren(r) ==
    /\ tcall' = Call("compute_children", ResV(r), FALSE, NoneV, compute_children(fields, r))
    /\ UNCHANGED obj
    /\ UtilsFrame

\* calls on single resources: the identity, the dirty flag and the observer
NextObjects ==
    \/ \E r \in Res : AssignUrl(r)
    \/ \E r \in Res : AssignField(r)
    \/ \E v \in Values : CallIsUploaded(v)
    \/ \E r \in Res : CallProcessUploadedResource(r, UrlV(ServerId(r)))
    \/ \E r \in Res : CallTouch(r, FALSE)

\* calls on the resources of a graph: the walker and the dirty flags
NextGraph ==
    \/ \E r \in Res : CallProcessUploadedResource(r, UrlV(ServerId(r)))
    \/ \E r \in Res, recursive \in BOOLEAN : CallTouch(r, recursive)
    \/ \E r \in Res : CallComputeChildren(r)

(* ---------------------------------------------------------------------- *)
(* session.py: UploadSession.upload and UploadSession._upload             *)
(* ---------------------------------------------------------------------- *)
Idle == upc \in {"idle", "returned", "raised"}

\* lines 318-329: which request _upload sends for the resource
WriteMethod(o) ==
    IF o.links = NoneV THEN "POST"
    ELSE IF Touched(o) THEN "PATCH"
    ELSE "NONE"
WriteTarget(r, o) ==
    IF o.links = NoneV THEN UrlV(CollectionId(r)) ELSE SelfOf(o.links)
\* resp.json()['links'] of a successful write
WriteResult(r, o) ==
    IF o.links = NoneV THEN LinksV(ServerId(r))
    ELSE IF Touched(o) THEN o.links
    ELSE SelfOf(o.links)
\* a request and whether its response was a success, with what the resource
\* looked like when it was sent
Request(r, o, okv) ==
    [res |-> r, method |-> WriteMethod(o), target |-> WriteTarget(r, o), ok |-> okv,
     url |-> o.url, links |-> o.links, touched |-> Touched(o)]
ThumbnailRequest(r, o, okv) ==
    [res |-> r, method |-> "PUT", target |-> UrlV(ThumbnailId(WriteResult(r, o).id)),
     ok |-> okv, url |-> o.url, links |-> o.links, touched |-> Touched(o)]

\* utils.construct_upload_dict: the pointer fields of the body of resource r,
\* getattr(value, '_url', value) for each value
construct_upload_dict(f, o, r) ==
    [i \in 1..Len(f[r]) |->
        IF f[r][i].t = "res" /\ o[f[r][i].id].url # NoneV THEN o[f[r][i].id].url
        ELSE f[r][i]]

\* a write task holds the json_dict that line 243 built when it was submitted
WriteTask(r, st, okv, res) ==
    [kind |-> "write", res |-> r, state |-> st, ok |-> okv, result |-> res, call |-> calls,
     json_dict |-> construct_upload_dict(fields, obj, r)]
FileTask(r, st, okv) ==
    [kind |-> "file", res |-> r, state |-> st, ok |-> okv, result |-> NoneV, call |-> calls,
     json_dict |-> << >>]

\* The transport keeps the body of every successful POST or PATCH under the
\* 'self' URL of the links it answers with.
StoreUrls == {ServerId(r) : r \in Res} \cup {PresetId(r) : r \in Res}
             \cup {DownloadId(r) : r \in Res}
NoBody == [t |-> "absent", fields |-> << >>, file |-> FALSE]
Body(json_dict, isFile) == [t |-> "body", fields |-> json_dict, file |-> isFile]
EmptyStore == [u \in StoreUrls |-> NoBody]

\* lines 208-212
resources_to_upload(f, o) ==
    SelectSeq(Append(compute_children(f, Root), ResV(Root)),
              LAMBDA v : ~is_uploaded(o, v))

\* the objects and options an upload run starts from
UploadInit ==
    /\ fields \in Graphs
    /\ obj \in InitialObjects
    /\ \A r \in Res : obj[r] # NewObject => obj[r] \in PreparedObjects(r)
    /\ \A r \in Res : ~Reachable(fields, r) => obj[r] = NewObject
    /\ tasks = << >>
    /\ executor \in {"sync", "pool"}
    /\ thumbnail \in BOOLEAN
    /\ invalid \in {{}} \cup {{r} : r \in {x \in Res : Reachable(fields, x)}}
    /\ invalid # {} => \A r \in Res : obj[r] = NewObject
    /\ unhashable \in {{}} \cup {{r} : r \in {x \in Res : Reachable(fields, x) /\ x # 3}}
    /\ unhashable # {} =>
           invalid = {} /\ ~thumbnail /\ \A r \in Res : obj[r] = NewObject
    /\ ushut = FALSE
    /\ store = EmptyStore
    /\ upc = "idle"
    /\ ulist = << >>
    /\ uidx = 1
    /\ ucomplete = TRUE
    /\ fileq = << >>
    /\ dsnap = << >>
    /\ wlog = {}
    /\ sublog = << >>
    /\ finlog = {}
    /\ uret = NoneV
    /\ uerr = NoErr
    /\ calls = 0
    /\ hist = NoHist

\* Handles no object refers to any more are gone when a call starts; the
\* handles left on the objects by earlier calls are renumbered 1, 2, ...
KeptHandles == {obj[r].future_links : r \in {x \in Res : obj[x].future_links # 0}}
Rank(h) == Cardinality({k \in KeptHandles : k <= h})
KeptTasks == [i \in 1..Cardinality(KeptHandles) |->
                 tasks[CHOOSE h \in KeptHandles : Rank(h) = i]]
Renumbered(o) ==
    [r \in Res |-> IF o[r].future_links = 0 THEN o[r]
                   ELSE [o[r] EXCEPT !.future_links = Rank(o[r].future_links)]]

\* utils.py line 165: OrderedDict.fromkeys(children) raises TypeError when a
\* value that compute_children collected below resource r is unhashable
compute_children_raises(f, r) ==
    \E x \in unhashable :
        \/ x = r
        \/ \E i \in 1..Len(compute_children(f, r)) : compute_children(f, r)[i] = ResV(x)

\* lines 206-215: obtain the executor, compute the resource set, keep the thumbnail
StartUpload ==
    /\ Idle
    /\ calls < MaxCalls
    /\ ~compute_children_raises(fields, Root)
    /\ ushut' = FALSE
    /\ calls' = calls + 1
    /\ ulist' = resources_to_upload(fields, obj)
    /\ obj' = Renumbered(IF thumbnail THEN [obj EXCEPT ![Root].thumbnail = TRUE] ELSE obj)
    /\ tasks' = KeptTasks
    /\ upc' = "scan"
    /\ uidx' = 1
    /\ ucomplete' = TRUE
    /\ fileq' = << >>
    /\ dsnap' = << >>
    /\ wlog' = {}
    /\ sublog' = << >>
    /\ finlog' = {}
    /\ uret' = NoneV
    /\ uerr' = NoErr
    /\ hist' = [hist EXCEPT !.startClean = hist.lastOk, !.startRet = hist.lastRet,
                             !.mutated = {}, !.start = obj',
                             !.scans = 0, !.subscan = NoScans, !.finscan = NoScans]
    /\ UNCHANGED <<xvars, dvars, fields, store, unhashable, executor, thumbnail, invalid>>

\* lines 206-208: the executor is obtained, then compute_children raises
\* TypeError; the try statement of line 216 is not reached
StartUploadRaises ==
    /\ Idle
    /\ calls < MaxCalls
    /\ compute_children_raises(fields, Root)
    /\ calls' = calls + 1
    /\ upc' = "raised"
    /\ uerr' = Err("TypeError", Root, 0)
    /\ ushut' = FALSE
    /\ uret' = NoneV
    /\ wlog' = {}
    /\ sublog' = << >>
    /\ finlog' = {}
    /\ hist' = [hist EXCEPT !.lastOk = FALSE, !.startClean = hist.lastOk,
                             !.startRet = hist.lastRet, !.mutated = {}, !.start = obj]
    /\ UNCHANGED <<xvars, dvars, fields, store, obj, tasks, unhashable, executor, ulist, uidx, ucomplete,
                   fileq, dsnap, thumbnail, invalid>>

\* A field assignment by the caller between two calls: the change observer,
\* when installed, calls touch (utils.py lines 189-195).
Mutate(r) ==
    /\ Idle
    /\ calls < MaxCalls
    /\ Reachable(fields, r)
    /\ obj' = IF obj[r].observer THEN [obj EXCEPT ![r] = touch(obj[r])] ELSE obj
    /\ hist' = [hist EXCEPT !.lastOk = FALSE, !.mutated = @ \cup {r}]
    /\ UNCHANGED <<xvars, dvars, fields, store, unhashable, ushut, tasks, executor, upc, ulist, uidx, ucomplete, fileq,
                   dsnap, wlog, sublog, finlog, uret, uerr, calls, thumbnail, invalid>>

InScan == upc = "scan" /\ uidx <= Len(ulist)
Cur == ulist[uidx].id
\* a handle of upload whose done() reports completion at once
HandleAlwaysDone(h) == TRUE
HandleDone(h) == tasks[h].state = "done"
\* a variant of line 236 that looks at the resource's own pointer fields only
ChildrenUploadedDirect(r) ==
    \A i \in 1..Len(fields[r]) : is_uploaded(obj, fields[r][i])
\* line 236: any(not is_uploaded(child) for child in children)
ChildrenUploaded(r) ==
    \A i \in 1..Len(compute_children(fields, r)) :
        is_uploaded(obj, compute_children(fields, r)[i])
\* the checks a scan step makes before it reaches line 234
NeedsWork(r) == ~is_uploaded(obj, ResV(r))
NoHandle(r) == obj[r].future_links = 0

\* lines 221-222
ScanSkip ==
    /\ InScan
    /\ is_uploaded(obj, ulist[uidx])
    /\ uidx' = uidx + 1
    /\ UNCHANGED <<xvars, dvars, fields, store, unhashable, ushut, obj, tasks, executor, upc, ulist, ucomplete, fileq,
                   dsnap, wlog, sublog, finlog, uret, uerr, calls, hist, thumbnail, invalid>>

\* a variant of lines 223-229 in which line 231 precedes the test of the handle
ScanFinalizeIncomplete ==
    /\ InScan
    /\ NeedsWork(Cur)
    /\ ~NoHandle(Cur)
    /\ HandleDone(obj[Cur].future_links)
    /\ tasks[obj[Cur].future_links].ok
    /\ obj' = [obj EXCEPT ![Cur] =
                 process_uploaded_resource(obj[Cur], tasks[obj[Cur].future_links].result)]
    /\ finlog' = finlog \cup {[res |-> Cur, handle |-> obj[Cur].future_links]}
    /\ uidx' = uidx + 1
    /\ ucomplete' = FALSE
    /\ hist' = IF executor = "sync"
               THEN [hist EXCEPT !.finscan[Cur] = hist.scans + 1]
               ELSE hist
    /\ UNCHANGED <<xvars, dvars, fields, store, unhashable, ushut, tasks, executor, upc, ulist, fileq,
                   dsnap, wlog, sublog, uret, uerr, calls, thumbnail, invalid>>
\* lines 223-229, the handle's result is the links of the resource
ScanFinalize ==
    /\ InScan
    /\ NeedsWork(Cur)
    /\ ~NoHandle(Cur)
    /\ HandleDone(obj[Cur].future_links)
    /\ tasks[obj[Cur].future_links].ok
    /\ obj' = [obj EXCEPT ![Cur] =
                 process_uploaded_resource(obj[Cur], tasks[obj[Cur].future_links].result)]
    /\ finlog' = finlog \cup {[res |-> Cur, handle |-> obj[Cur].future_links]}
    /\ uidx' = uidx + 1
    /\ hist' = IF executor = "sync"
               THEN [hist EXCEPT !.finscan[Cur] = hist.scans + 1]
               ELSE hist
    /\ UNCHANGED <<xvars, dvars, fields, store, unhashable, ushut, tasks, executor, upc, ulist, ucomplete, fileq,
                   dsnap, wlog, sublog, uret, uerr, calls, thumbnail, invalid>>

\* lines 225-227, future_links.result() raises what the task raised
ScanResultRaises ==
    /\ InScan
    /\ NeedsWork(Cur)
    /\ ~NoHandle(Cur)
    /\ HandleDone(obj[Cur].future_links)
    /\ ~tasks[obj[Cur].future_links].ok
    /\ upc' = "raising"
    /\ uerr' = Err("ValueError", tasks[obj[Cur].future_links].res, Len(sublog))
    /\ UNCHANGED <<xvars, dvars, fields, store, unhashable, ushut, obj, tasks, executor, ulist, uidx, ucomplete, fileq,
                   dsnap, wlog, sublog, finlog, uret, calls, hist, thumbnail, invalid>>

\* lines 231-233, the write of the resource is still in flight
ScanWait ==
    /\ InScan
    /\ NeedsWork(Cur)
    /\ ~NoHandle(Cur)
    /\ ~HandleDone(obj[Cur].future_links)
    /\ ucomplete' = FALSE
    /\ uidx' = uidx + 1
    /\ UNCHANGED <<xvars, dvars, fields, store, unhashable, ushut, obj, tasks, executor, upc, ulist, fileq,
                   dsnap, wlog, sublog, finlog, uret, uerr, calls, hist, thumbnail, invalid>>

\* lines 235-237
ScanBlocked ==
    /\ InScan
    /\ NeedsWork(Cur)
    /\ NoHandle(Cur)
    /\ ~ChildrenUploaded(Cur)
    /\ ucomplete' = FALSE
    /\ uidx' = uidx + 1
    /\ UNCHANGED <<xvars, dvars, fields, store, unhashable, ushut, obj, tasks, executor, upc, ulist, fileq,
                   dsnap, wlog, sublog, finlog, uret, uerr, calls, hist, thumbnail, invalid>>

ReadyToWrite ==
    /\ InScan
    /\ NeedsWork(Cur)
    /\ NoHandle(Cur)
    /\ ChildrenUploaded(Cur)

\* line 242: res.validate() raises
ScanValidateRaises ==
    /\ ReadyToWrite
    /\ Cur \in invalid
    /\ ucomplete' = FALSE
    /\ upc' = "raising"
    /\ uerr' = Err("ValidationError", Cur, Len(sublog))
    /\ UNCHANGED <<xvars, dvars, fields, store, unhashable, ushut, obj, tasks, executor, ulist, uidx, fileq,
                   dsnap, wlog, sublog, finlog, uret, calls, hist, thumbnail, invalid>>

\* a variant of lines 242-244 in which validate() is not called
CanSubmitUnvalidated == ReadyToWrite
CanSubmit ==
    /\ ReadyToWrite
    /\ Cur \notin invalid

\* lines 244-260 with ThreadPoolExecutor.submit: the task is queued
ScanSubmitPool ==
    /\ CanSubmit
    /\ executor = "pool"
    /\ tasks' = Append(tasks, WriteTask(Cur, "queued", TRUE, NoneV))
    /\ obj' = [obj EXCEPT ![Cur].future_links = Len(tasks) + 1]
    /\ sublog' = Append(sublog, Cur)
    /\ ucomplete' = FALSE
    /\ uidx' = uidx + 1
    /\ UNCHANGED <<xvars, dvars, fields, store, unhashable, ushut, executor, upc, ulist, fileq, dsnap, wlog, finlog,
                   uret, uerr, calls, hist, thumbnail, invalid>>

\* What _upload (lines 318-369) does for resource r when the write answers
\* okW, the thumbnail PUT answers okT: the requests, and the byte uploads
\* handed to the executor (payload first, thumbnail second).
Sends(r) == WriteMethod(obj[r]) # "NONE"
WriteRequests(r, okW) == IF Sends(r) THEN {Request(r, obj[r], okW)} ELSE {}
ThumbnailRequests(r, okW, okT) ==
    IF Sends(r) /\ okW /\ obj[r].thumbnail THEN {ThumbnailRequest(r, obj[r], okT)} ELSE {}
ByteUploads(r, okW, okT, st, okP, okI) ==
    (IF Sends(r) /\ okW /\ HasPayload(fields, r) THEN <<FileTask(r, st, okP)>> ELSE << >>)
    \o (IF Sends(r) /\ okW /\ obj[r].thumbnail /\ okT THEN <<FileTask(r, st, okI)>> ELSE << >>)
Handles(n, k) == [i \in 1..k |-> n + i]
\* the transport after the write of resource r with body json_dict was
\* answered okW (lines 318-327)
Stored(st, r, json_dict, okW) ==
    IF Sends(r) /\ okW
    THEN [st EXCEPT ![WriteResult(r, obj[r]).id] = Body(json_dict, HasPayload(fields, r))]
    ELSE st
\* a variant of lines 330-331 that raises for no response
WriteNeverRaises(r, okW) == FALSE
\* lines 330-331: if not resp.ok: raise ValueError(resp.text)
WriteRaises(r, okW) == Sends(r) /\ ~okW

\* lines 244-260 with SynchronousExecutor.submit: _upload and the byte
\* uploads it submits run inside submit
ScanSubmitSync(okW, okT, okP, okI) ==
    /\ CanSubmit
    /\ executor = "sync"
    /\ sublog' = Append(sublog, Cur)
    /\ ucomplete' = FALSE
    /\ wlog' = wlog \cup WriteRequests(Cur, okW) \cup ThumbnailRequests(Cur, okW, okT)
    /\ IF WriteRaises(Cur, okW)
       THEN /\ upc' = "raising"
            /\ uerr' = Err("ValueError", Cur, Len(sublog) + 1)
            /\ UNCHANGED <<obj, tasks, fileq, uidx>>
       ELSE LET bytes == ByteUploads(Cur, okW, okT, "done", okP, okI)
            IN /\ tasks' = (tasks \o bytes)
                            \o <<WriteTask(Cur, "done", TRUE, WriteResult(Cur, obj[Cur]))>>
               /\ fileq' = fileq \o Handles(Len(tasks), Len(bytes))
               /\ obj' = [obj EXCEPT ![Cur].future_links = Len(tasks) + Len(bytes) + 1]
               /\ uidx' = uidx + 1
               /\ UNCHANGED <<upc, uerr>>
    /\ store' = Stored(store, Cur, construct_upload_dict(fields, obj, Cur), okW)
    /\ hist' = [hist EXCEPT !.subscan[Cur] = hist.scans + 1]
    /\ UNCHANGED <<xvars, dvars, fields, unhashable, ushut, executor, ulist, dsnap, finlog, uret, calls,
                   thumbnail, invalid>>

\* a pool worker runs _upload up to the response of the write (lines 318-331)
TaskRequest(h, okW) ==
    /\ h \in 1..Len(tasks)
    /\ tasks[h].kind = "write"
    /\ tasks[h].state = "queued"
    /\ wlog' = wlog \cup WriteRequests(tasks[h].res, okW)
    /\ tasks' = [tasks EXCEPT ![h] =
                   IF WriteRaises(tasks[h].res, okW)
                   THEN [@ EXCEPT !.state = "done", !.ok = FALSE]
                   ELSE IF ~Sends(tasks[h].res)
                   THEN [@ EXCEPT !.state = "done",
                                  !.result = WriteResult(tasks[h].res, obj[tasks[h].res])]
                   ELSE [@ EXCEPT !.state = "responded",
                                  !.result = WriteResult(tasks[h].res, obj[tasks[h].res])]]
    /\ store' = Stored(store, tasks[h].res, tasks[h].json_dict, okW)
    /\ UNCHANGED <<xvars, dvars, fields, unhashable, ushut, obj, executor, upc, ulist, uidx, ucomplete, fileq,
                   dsnap, sublog, finlog, uret, uerr, calls, hist, thumbnail, invalid>>

\* a variant of lines 332-369 in which the write task waits for the byte
\* uploads it submitted (file_resp.result()) before it returns
TaskFinishWaits(h, okT) ==
    /\ h \in 1..Len(tasks)
    /\ tasks[h].kind = "write"
    /\ tasks[h].state = "responded"
    /\ LET r == tasks[h].res
           bytes == ByteUploads(r, TRUE, okT, "queued", TRUE, TRUE)
           mine == {g \in 1..Len(tasks) : tasks[g].kind = "file" /\ tasks[g].res = r
                                             /\ tasks[g].call = calls}
       IN IF mine = {} /\ bytes # << >>
          THEN /\ wlog' = wlog \cup ThumbnailRequests(r, TRUE, okT)
               /\ tasks' = tasks \o bytes
               /\ fileq' = fileq \o Handles(Len(tasks), Len(bytes))
          ELSE /\ \A g \in mine : tasks[g].state = "done"
               /\ wlog' = wlog \cup ThumbnailRequests(r, TRUE, okT)
               /\ tasks' = [tasks EXCEPT ![h].state = "done"]
               /\ fileq' = fileq
    /\ UNCHANGED <<xvars, dvars, fields, store, unhashable, ushut, obj, executor, upc, ulist, uidx, ucomplete,
                   dsnap, sublog, finlog, uret, uerr, calls, hist, thumbnail, invalid>>
\* a variant of lines 332-369 that is called without file_resp_futures: the
\* byte uploads are submitted and their handles are kept nowhere
TaskFinishNotQueued(h, okT) ==
    /\ h \in 1..Len(tasks)
    /\ tasks[h].kind = "write"
    /\ tasks[h].state = "responded"
    /\ LET r == tasks[h].res
           bytes == ByteUploads(r, TRUE, okT, "queued", TRUE, TRUE)
       IN /\ wlog' = wlog \cup ThumbnailRequests(r, TRUE, okT)
          /\ tasks' = [tasks EXCEPT ![h].state = "done"] \o bytes
          /\ fileq' = fileq
    /\ UNCHANGED <<xvars, dvars, fields, store, unhashable, ushut, obj, executor, upc, ulist, uidx, ucomplete,
                   dsnap, sublog, finlog, uret, uerr, calls, hist, thumbnail, invalid>>
\* the worker submits the byte uploads, appends their handles to
\* file_resp_futures and returns the links (lines 332-369)
TaskFinish(h, okT) ==
    /\ h \in 1..Len(tasks)
    /\ tasks[h].kind = "write"
    /\ tasks[h].state = "responded"
    /\ LET r == tasks[h].res
           bytes == ByteUploads(r, TRUE, okT, "queued", TRUE, TRUE)
       IN /\ wlog' = wlog \cup ThumbnailRequests(r, TRUE, okT)
          /\ tasks' = [tasks EXCEPT ![h].state = "done"] \o bytes
          /\ fileq' = fileq \o Handles(Len(tasks), Len(bytes))
    /\ UNCHANGED <<xvars, dvars, fields, store, unhashable, ushut, obj, executor, upc, ulist, uidx, ucomplete,
                   dsnap, sublog, finlog, uret, uerr, calls, hist, thumbnail, invalid>>

\* a pool worker runs utils.upload_array / utils.upload_image
FileRun(h, okF) ==
    /\ h \in 1..Len(tasks)
    /\ tasks[h].kind = "file"
    /\ tasks[h].state = "queued"
    /\ tasks' = [tasks EXCEPT ![h] = [@ EXCEPT !.state = "done", !.ok = okF]]
    /\ UNCHANGED <<xvars, dvars, fields, store, unhashable, ushut, obj, executor, upc, ulist, uidx, ucomplete, fileq,
                   dsnap, wlog, sublog, finlog, uret, uerr, calls, hist, thumbnail, invalid>>

\* lines 261-263: end of one pass over resources_to_upload
ScanEnd ==
    /\ upc = "scan"
    /\ uidx > Len(ulist)
    /\ IF ucomplete
       THEN /\ upc' = "drain"
            /\ dsnap' = fileq
            /\ UNCHANGED <<uidx, ucomplete>>
       ELSE /\ uidx' = 1
            /\ ucomplete' = TRUE
            /\ UNCHANGED <<upc, dsnap>>
    /\ hist' = IF executor = "sync" THEN [hist EXCEPT !.scans = @ + 1] ELSE hist
    /\ UNCHANGED <<xvars, dvars, fields, store, unhashable, ushut, obj, tasks, executor, ulist, fileq, wlog, sublog,
                   finlog, uret, uerr, calls, thumbnail, invalid>>

RemoveHandle(q, h) == SelectSeq(q, LAMBDA x : x # h)
\* a variant of line 270 that takes every response for a success
ResponseOkAlways(h) == TRUE
\* line 270: resp.ok of the response the byte upload returned
ResponseOk(h) == tasks[h].ok

\* lines 265-272: one iteration of the for loop over the copy
DrainStep ==
    /\ upc = "drain"
    /\ dsnap # << >>
    /\ LET h == Head(dsnap)
       IN IF ~HandleDone(h)
          THEN /\ dsnap' = Tail(dsnap)
               /\ ucomplete' = FALSE
               /\ UNCHANGED <<fileq, upc, uerr>>
          ELSE IF ~ResponseOk(h)
          THEN /\ upc' = "raising"
               /\ uerr' = Err("FileValueError", tasks[h].res, Len(sublog))
               /\ UNCHANGED <<fileq, dsnap, ucomplete>>
          ELSE /\ fileq' = RemoveHandle(fileq, h)
               /\ dsnap' = Tail(dsnap)
               /\ UNCHANGED <<upc, uerr, ucomplete>>
    /\ UNCHANGED <<xvars, dvars, fields, store, unhashable, ushut, obj, tasks, executor, ulist, uidx, wlog, sublog,
                   finlog, uret, calls, hist, thumbnail, invalid>>

\* line 263: the while loop takes a new copy of a non-empty queue
DrainAgain ==
    /\ upc = "drain"
    /\ dsnap = << >>
    /\ fileq # << >>
    /\ dsnap' = fileq
    /\ UNCHANGED <<xvars, dvars, fields, store, unhashable, ushut, obj, tasks, executor, upc, ulist, uidx, ucomplete, fileq,
                   wlog, sublog, finlog, uret, uerr, calls, hist, thumbnail, invalid>>

AllTasksDone == \A h \in 1..Len(tasks) : HandleDone(h)

\* lines 282-284: executor.shutdown(wait=True), then resource._links['self']
Return ==
    /\ upc = "drain"
    /\ dsnap = << >>
    /\ fileq = << >>
    /\ AllTasksDone
    /\ IF obj[Root].links = NoneV
       THEN /\ upc' = "raised"
            /\ uerr' = Err("AttributeError", Root, Len(sublog))
            /\ hist' = [hist EXCEPT !.lastOk = FALSE, !.scans = 0,
                                     !.subscan = NoScans, !.finscan = NoScans]
            /\ UNCHANGED uret
       ELSE /\ upc' = "returned"
            /\ uret' = SelfOf(obj[Root].links)
            /\ hist' = [hist EXCEPT !.lastOk = TRUE, !.lastRet = SelfOf(obj[Root].links),
                                     !.scans = 0, !.subscan = NoScans, !.finscan = NoScans]
            /\ UNCHANGED uerr
    /\ ulist' = << >>
    /\ uidx' = 1
    /\ ucomplete' = TRUE
    /\ ushut' = TRUE
    /\ UNCHANGED <<xvars, dvars, fields, store, unhashable, obj, tasks, executor, fileq,
                   dsnap, wlog, sublog, finlog, calls, thumbnail, invalid>>

\* lines 282-283 on the error path: shutdown(wait=True), then the error propagates
Raise ==
    /\ upc = "raising"
    /\ AllTasksDone
    /\ upc' = "raised"
    /\ hist' = [hist EXCEPT !.lastOk = FALSE, !.scans = 0,
                             !.subscan = NoScans, !.finscan = NoScans]
    /\ ulist' = << >>
    /\ uidx' = 1
    /\ ucomplete' = TRUE
    /\ fileq' = << >>
    /\ dsnap' = << >>
    /\ ushut' = TRUE
    /\ UNCHANGED <<xvars, dvars, fields, store, unhashable, obj, tasks, executor,
                   wlog, sublog, finlog, uret, uerr, calls, thumbnail, invalid>>

Next ==
    \/ StartUpload
    \/ StartUploadRaises
    \/ \E r \in Res : Mutate(r)
    \/ ScanSkip
    \/ ScanFinalize
    \/ ScanResultRaises
    \/ ScanWait
    \/ ScanBlocked
    \/ ScanValidateRaises
    \/ ScanSubmitPool
    \/ \E okW, okT, okP, okI \in BOOLEAN : ScanSubmitSync(okW, okT, okP, okI)
    \/ \E h \in 1..Len(tasks), okW \in BOOLEAN : TaskRequest(h, okW)
    \/ \E h \in 1..Len(tasks), okT \in BOOLEAN : TaskFinish(h, okT)
    \/ \E h \in 1..Len(tasks), okF \in BOOLEAN : FileRun(h, okF)
    \/ ScanEnd
    \/ DrainStep
    \/ DrainAgain
    \/ Return
    \/ Raise


(* ---------------------------------------------------------------------- *)
(* session.py: Session.download and Session._download_resource_json       *)
(* ---------------------------------------------------------------------- *)
\* URLs: 1..3 are API URLs of resources; AppKey is the app-form URL of
\* resource 1, ProjectUrl and ViewUrl are what utils.convert_url_app_to_project
\* and utils.convert_url_project_to_view make of it.
DRes == {1, 2, 3}
AppKey == 4
ProjectUrl == 5
ViewUrl == 6
DKeys == DRes \cup {AppKey}
\* the resource whose payload the server returns for a URL key
PayloadOf(k) == IF k = AppKey THEN 1 ELSE k

\* The values lookup_dict holds for a key (absent: the key is not in it).
DVal(t, a, loc, lh, okv) == [t |-> t, a |-> a, loc |-> loc, lh |-> lh, ok |-> okv]
Absent == DVal("absent", 0, "absent", 0, TRUE)
NoneValue == DVal("none", 0, "absent", 0, TRUE)
HandleValue(h) == DVal("handle", h, "absent", 0, TRUE)
\* the URL string a failed fetch returns when allow_failure is set
FailedValue(u) == DVal("failed", u, "absent", 0, TRUE)
\* resp.json(): links.location is a URL string for a file, absent otherwise
PayloadValue(r) ==
    DVal("payload", r, IF server[r].kind = "file" THEN "string" ELSE "absent", 0, TRUE)

MetaTask(k, st, okv, res, pos) ==
    [kind |-> "meta", key |-> k, state |-> st, ok |-> okv, result |-> res, pos |-> pos]
ByteTask(k, st, okv) ==
    [kind |-> "byte", key |-> k, state |-> st, ok |-> okv, result |-> Absent, pos |-> 0]

\* Payloads: a pointer holds the URL of a later resource (the same URL may
\* be held twice), the pointers of a payload in ascending order; resource 3
\* is a file or a plain resource, resources 1 and 2 are plain or a slide.
DPointers(r) ==
    {q \in SeqsUpTo({c \in DRes : c > r}, MaxPointers) :
        \A i, j \in 1..Len(q) : i < j => q[i] <= q[j]}
DKinds(r) == IF r = 3 THEN {"plain", "file"} ELSE {"plain", "slide"}
Points(sv, p, c) == \E i \in 1..Len(sv[p].links) : sv[p].links[i] = c
DReachable(sv, r) ==
    \/ r = 1
    \/ Points(sv, 1, r)
    \/ r = 3 /\ Points(sv, 1, 2) /\ Points(sv, 2, 3)
\* a resource no payload leads to is never fetched: it is plain, without pointers
Servers ==
    {sv \in [DRes -> [links : UNION {DPointers(r) : r \in DRes},
                      kind : {"plain", "file", "slide"}]] :
        \A r \in DRes :
            /\ sv[r].links \in DPointers(r)
            /\ sv[r].kind \in DKinds(r)
            /\ ~DReachable(sv, r) => sv[r].links = << >> /\ sv[r].kind = "plain"}
\* The executor is the default inline one, the default pool, or one the
\* caller supplies ("custom": it runs tasks as a pool does, and its handles
\* implement done() and result() without deriving from Future).  The
\* app-form URL is downloaded with the inline executor, and so is a copy
\* (copy is read after the executor was shut down, line 609).
OptionsAny ==
    {o \in [url : {1, AppKey}, recursive : BOOLEAN, allow_failure : BOOLEAN,
            executor : {"sync", "pool", "custom"}, copy : BOOLEAN] :
        /\ o.url = AppKey => o.executor = "sync"
        /\ o.copy => o.executor = "sync"}
\* the arguments of a call that uses a default executor
Options == {o \in OptionsAny : o.executor \in {"sync", "pool"}}

\* A pointer value of a payload is the URL string of a resource (its key) or,
\* when the body was posted with one, a links mapping, which is no string.
Mapping == 0
\* isinstance(value, string_types), lines 675 and 679
IsUrlString(v) == v # Mapping

\* sorted(lookup_dict.copy().items()): the keys of the snapshot, ascending
RECURSIVE SortedKeysFrom(_, _)
SortedKeysFrom(d, k) ==
    IF k > AppKey THEN << >>
    ELSE (IF d[k].t = "absent" THEN << >> ELSE <<k>>) \o SortedKeysFrom(d, k + 1)
\* a variant of line 548 that iterates the snapshot in descending key order
SortedKeysDescending(d) ==
    [i \in 1..Len(SortedKeysFrom(d, 1)) |->
        SortedKeysFrom(d, 1)[Len(SortedKeysFrom(d, 1)) + 1 - i]]
SortedKeys(d) == SortedKeysFrom(d, 1)

\* a variant of lines 676 and 680 that adds an absent key and removes a present one
setdefault_discard(d, k) ==
    [d EXCEPT ![k] = IF d[k].t = "absent" THEN NoneValue ELSE Absent]
\* a variant of lines 676 and 680 that assigns None to the key
setdefault_overwrite(d, k) == [d EXCEPT ![k] = NoneValue]
\* lines 676 and 680: lookup_dict.setdefault(value)
setdefault(d, k) == IF d[k].t = "absent" THEN [d EXCEPT ![k] = NoneValue] ELSE d

\* a variant of line 670 that ignores the recursive argument
RecursesAlways(r) == server[r].kind # "slide"
\* a variant of lines 667-670 that searches slide payloads too
RecursesSlides(r) == options.recursive
\* lines 667-670: is the payload of resource r searched for pointer URLs
Recurses(r) == options.recursive /\ server[r].kind # "slide"
\* lines 670-680 as one step: every pointer URL of the payload from position i on
RECURSIVE AddPointers(_, _, _)
AddPointers(d, r, i) ==
    IF i > Len(server[r].links) THEN d
    ELSE AddPointers(IF IsUrlString(server[r].links[i])
                     THEN setdefault(d, server[r].links[i]) ELSE d, r, i + 1)

\* lines 639-653: the URL that is fetched last and whether a fetch succeeded,
\* when the project-service fetch answers okP and the other fetch okV
FinalUrl(k, okP) == IF k # AppKey THEN k ELSE IF okP THEN ProjectUrl ELSE ViewUrl
FetchOk(k, okP, okV) == IF k # AppKey THEN okV ELSE okP \/ okV

NoDErr == [kind |-> "none", key |-> 0]
DErr(kd, k) == [kind |-> kd, key |-> k]

\* links.location of the payload of file r
LocationUrl(r) == 6 + r
Urls == 1..9
NoGets == [u \in Urls |-> 0]
\* one more GET request to each URL of the sequence q
RECURSIVE Sent(_, _)
Sent(g, q) == IF q = << >> THEN g ELSE Sent([g EXCEPT ![Head(q)] = @ + 1], Tail(q))
\* lines 639-649: the URLs _download_resource_json sends a GET to, in order
FetchUrls(k, okP) ==
    IF k # AppKey THEN <<k>> ELSE IF okP THEN <<ProjectUrl>> ELSE <<ProjectUrl, ViewUrl>>

\* what download has built for a key: nothing, the failed URL, or an object
\* with its _url and its pointer fields
BuiltAbsent == [t |-> "absent", a |-> 0, url |-> NoneV, fields |-> << >>, touched |-> "unset"]

\* the state download leaves unused while an upload runs
DownloadAtRest ==
    /\ server = [r \in DRes |-> [links |-> << >>, kind |-> "plain"]]
    /\ options = [url |-> 1, recursive |-> TRUE, allow_failure |-> FALSE, executor |-> "sync",
                  copy |-> FALSE]
    /\ lookup_dict = [k \in DKeys |-> Absent]
    /\ dtasks = << >>
    /\ dpc = "idle"
    /\ dcopy = [k \in DKeys |-> Absent]
    /\ didx = 1
    /\ downloads_complete = TRUE
    /\ built = [k \in DKeys |-> BuiltAbsent]
    /\ derr = NoDErr
    /\ gets = NoGets
    /\ dshut = FALSE

\* the state upload leaves unused while a download runs
UploadAtRest ==
    /\ fields = [r \in Res |-> << >>]
    /\ obj = [r \in Res |-> NewObject]
    /\ tasks = << >>
    /\ executor = "sync"
    /\ thumbnail = FALSE
    /\ invalid = {}
    /\ unhashable = {}
    /\ ushut = FALSE
    /\ store = EmptyStore
    /\ upc = "idle"
    /\ ulist = << >>
    /\ uidx = 1
    /\ ucomplete = TRUE
    /\ fileq = << >>
    /\ dsnap = << >>
    /\ wlog = {}
    /\ sublog = << >>
    /\ finlog = {}
    /\ uret = NoneV
    /\ uerr = NoErr
    /\ calls = 0
    /\ hist = NoHist

\* the payloads on the server and the arguments a download run starts from
DownloadInit ==
    /\ server \in Servers
    /\ options \in Options
    /\ lookup_dict = [k \in DKeys |-> Absent]
    /\ dtasks = << >>
    /\ dpc = "idle"
    /\ dcopy = [k \in DKeys |-> Absent]
    /\ didx = 1
    /\ downloads_complete = TRUE
    /\ built = [k \in DKeys |-> BuiltAbsent]
    /\ derr = NoDErr
    /\ gets = NoGets
    /\ dshut = FALSE

Init == UploadInit /\ DownloadAtRest /\ OthersAtRest
InitDownload == UploadAtRest /\ DownloadInit /\ OthersAtRest
\* a download call with a default executor or with an executor of the caller
InitDownloadAny ==
    /\ UploadAtRest
    /\ OthersAtRest
    /\ server \in Servers
    /\ options \in OptionsAny
    /\ lookup_dict = [k \in DKeys |-> Absent]
    /\ dtasks = << >>
    /\ dpc = "idle"
    /\ dcopy = [k \in DKeys |-> Absent]
    /\ didx = 1
    /\ downloads_complete = TRUE
    /\ built = [k \in DKeys |-> BuiltAbsent]
    /\ derr = NoDErr
    /\ gets = NoGets
    /\ dshut = FALSE

\* a handle whose done() reports completion at once
DHandleAlwaysDone(h) == TRUE
\* a handle whose done() never reports completion
DHandleNeverDone(h) == FALSE
\* lines 565 and 585: value.done()
DHandleDone(h) == dtasks[h].state = "done"
InDScan == dpc = "scan" /\ didx <= Len(SortedKeys(dcopy))
DKey == SortedKeys(dcopy)[didx]
\* the value of the snapshot at the current key; a payload is the same dict
\* object in the snapshot and in lookup_dict
DValue == IF dcopy[DKey].t = "payload" THEN lookup_dict[DKey] ELSE dcopy[DKey]

\* lines 539-547: the table holds the requested URL, the first snapshot is taken
DStart ==
    /\ dpc = "idle"
    /\ dpc' = "scan"
    /\ lookup_dict' = [k \in DKeys |-> IF k = options.url THEN NoneValue ELSE Absent]
    /\ dcopy' = [k \in DKeys |-> IF k = options.url THEN NoneValue ELSE Absent]
    /\ didx' = 1
    /\ downloads_complete' = TRUE
    /\ dshut' = FALSE
    /\ UNCHANGED <<xvars, uvars, server, options, dtasks, built, derr, gets>>

\* lines 563 and 584: isinstance(value, (Future, utils.SynchronousFuture)),
\* for a handle the executor of this call returned
IsFuture == options.executor \in {"sync", "pool"}

\* lines 551-561 with a submit that queues the fetch: ThreadPoolExecutor or
\* the caller's executor
DSubmitMetaPool ==
    /\ InDScan
    /\ DValue.t = "none"
    /\ options.executor \in {"pool", "custom"}
    /\ dtasks' = Append(dtasks, MetaTask(DKey, "queued", TRUE, Absent, 1))
    /\ lookup_dict' = [lookup_dict EXCEPT ![DKey] = HandleValue(Len(dtasks) + 1)]
    /\ downloads_complete' = FALSE
    /\ didx' = didx + 1
    /\ UNCHANGED <<xvars, uvars, server, dshut, options, dpc, dcopy, built, derr, gets>>

\* what _download_resource_json returns for key k (lines 650-654, 681)
FetchResult(k, okP, okV) ==
    IF FetchOk(k, okP, okV) THEN PayloadValue(PayloadOf(k))
    ELSE FailedValue(FinalUrl(k, okP))
\* a variant of lines 650-653 that returns the URL whatever allow_failure is
FetchNeverRaises(k, okP, okV) == FALSE
\* lines 650-653: the fetch failed and failure is not allowed
FetchRaises(k, okP, okV) == ~FetchOk(k, okP, okV) /\ ~options.allow_failure

\* lines 551-561 with SynchronousExecutor.submit: _download_resource_json
\* runs inside submit
DSubmitMetaSync(okP, okV) ==
    /\ InDScan
    /\ DValue.t = "none"
    /\ options.executor = "sync"
    /\ downloads_complete' = FALSE
    /\ IF FetchRaises(DKey, okP, okV)
       THEN /\ dpc' = "raising"
            /\ derr' = DErr("ValueError", DKey)
            /\ UNCHANGED <<lookup_dict, dtasks, didx>>
       ELSE /\ dtasks' = Append(dtasks, MetaTask(DKey, "done", TRUE,
                                                 FetchResult(DKey, okP, okV), 1))
            /\ lookup_dict' =
                   [(IF FetchOk(DKey, okP, okV) /\ Recurses(PayloadOf(DKey))
                     THEN AddPointers(lookup_dict, PayloadOf(DKey), 1)
                     ELSE lookup_dict)
                    EXCEPT ![DKey] = HandleValue(Len(dtasks) + 1)]
            /\ didx' = didx + 1
            /\ UNCHANGED <<dpc, derr>>
    /\ gets' = Sent(gets, FetchUrls(DKey, okP))
    /\ UNCHANGED <<xvars, uvars, server, dshut, options, dcopy, built>>

\* a variant of line 564 that leaves downloads_complete as it is
AfterHandleKeep(c) == c
\* line 564: downloads_complete = False
AfterHandle(c) == FALSE

\* lines 563-567, the handle is not done
DPollMetaPending ==
    /\ InDScan
    /\ DValue.t = "handle"
    /\ IsFuture
    /\ ~DHandleDone(DValue.a)
    /\ downloads_complete' = AfterHandle(downloads_complete)
    /\ didx' = didx + 1
    /\ UNCHANGED <<xvars, uvars, server, dshut, options, lookup_dict, dtasks, dpc, dcopy, built, derr, gets>>

\* lines 563-567, the handle is done: its result replaces it
DPollMetaResult ==
    /\ InDScan
    /\ DValue.t = "handle"
    /\ IsFuture
    /\ DHandleDone(DValue.a)
    /\ dtasks[DValue.a].ok
    /\ lookup_dict' = [lookup_dict EXCEPT ![DKey] = dtasks[DValue.a].result]
    /\ downloads_complete' = AfterHandle(downloads_complete)
    /\ didx' = didx + 1
    /\ UNCHANGED <<xvars, uvars, server, dshut, options, dtasks, dpc, dcopy, built, derr, gets>>

\* line 566, value.result() raises what the fetch raised
DPollMetaRaises ==
    /\ InDScan
    /\ DValue.t = "handle"
    /\ IsFuture
    /\ DHandleDone(DValue.a)
    /\ ~dtasks[DValue.a].ok
    /\ downloads_complete' = AfterHandle(downloads_complete)
    /\ dpc' = "raising"
    /\ derr' = DErr("ValueError", DKey)
    /\ UNCHANGED <<xvars, uvars, server, dshut, options, lookup_dict, dtasks, dcopy, didx, built, gets>>

\* lines 563-573 for a handle that is not a Future: the isinstance tests
\* of lines 563 and 569 fail and value.get raises AttributeError
DHandleNotFuture ==
    /\ InDScan
    /\ DValue.t = "handle"
    /\ ~IsFuture
    /\ dpc' = "raising"
    /\ derr' = DErr("AttributeError", DKey)
    /\ UNCHANGED <<xvars, uvars, server, dshut, options, lookup_dict, dtasks, dcopy, didx,
                   downloads_complete, built, gets>>

\* lines 569-575 and a location that is already a response: nothing to do
DSkip ==
    /\ InDScan
    /\ \/ DValue.t = "failed"
       \/ DValue.t = "payload" /\ DValue.loc \in {"absent", "response"}
    /\ didx' = didx + 1
    /\ UNCHANGED <<xvars, uvars, server, dshut, options, lookup_dict, dtasks, dpc, dcopy,
                   downloads_complete, built, derr, gets>>

\* lines 576-582 with ThreadPoolExecutor.submit
DSubmitBytePool ==
    /\ InDScan
    /\ DValue.t = "payload"
    /\ DValue.loc = "string"
    /\ options.executor = "pool"
    /\ dtasks' = Append(dtasks, ByteTask(DKey, "queued", TRUE))
    /\ lookup_dict' = [lookup_dict EXCEPT ![DKey].loc = "handle", ![DKey].lh = Len(dtasks) + 1]
    /\ downloads_complete' = FALSE
    /\ didx' = didx + 1
    /\ UNCHANGED <<xvars, uvars, server, dshut, options, dpc, dcopy, built, derr, gets>>

\* lines 576-582 with SynchronousExecutor.submit: session.get runs inside submit
DSubmitByteSync(okB) ==
    /\ InDScan
    /\ DValue.t = "payload"
    /\ DValue.loc = "string"
    /\ options.executor = "sync"
    /\ dtasks' = Append(dtasks, ByteTask(DKey, "done", okB))
    /\ lookup_dict' = [lookup_dict EXCEPT ![DKey].loc = "handle", ![DKey].lh = Len(dtasks) + 1]
    /\ downloads_complete' = FALSE
    /\ didx' = didx + 1
    /\ gets' = Sent(gets, <<LocationUrl(DValue.a)>>)
    /\ UNCHANGED <<xvars, uvars, server, dshut, options, dpc, dcopy, built, derr>>

\* lines 584-587
DPollBytePending ==
    /\ InDScan
    /\ DValue.t = "payload"
    /\ DValue.loc = "handle"
    /\ ~DHandleDone(DValue.lh)
    /\ downloads_complete' = FALSE
    /\ didx' = didx + 1
    /\ UNCHANGED <<xvars, uvars, server, dshut, options, lookup_dict, dtasks, dpc, dcopy, built, derr, gets>>

\* lines 584-598: the response replaces the handle
DPollByteResult ==
    /\ InDScan
    /\ DValue.t = "payload"
    /\ DValue.loc = "handle"
    /\ DHandleDone(DValue.lh)
    /\ lookup_dict' = [lookup_dict EXCEPT ![DKey].loc = "response",
                                          ![DKey].ok = dtasks[DValue.lh].ok]
    /\ didx' = didx + 1
    /\ UNCHANGED <<xvars, uvars, server, dshut, options, dtasks, dpc, dcopy,
                   downloads_complete, built, derr, gets>>

\* lines 599-600 and 546-548: leave the loop, or take a new snapshot
DScanEnd ==
    /\ dpc = "scan"
    /\ didx > Len(SortedKeys(dcopy))
    /\ IF downloads_complete
       THEN /\ dpc' = "shutdown"
            /\ UNCHANGED <<dcopy, didx, downloads_complete>>
       ELSE /\ dcopy' = lookup_dict
            /\ didx' = 1
            /\ downloads_complete' = TRUE
            /\ UNCHANGED dpc
    /\ UNCHANGED <<xvars, uvars, server, dshut, options, lookup_dict, dtasks, built, derr, gets>>

\* the worker is in the loop of lines 671-680 with a pointer URL left
DMetaHasPointer(k, pos) ==
    /\ Recurses(PayloadOf(k))
    /\ pos <= Len(server[PayloadOf(k)].links)

\* A pool worker runs _download_resource_json up to its first access to
\* lookup_dict: the fetches of lines 639-654 and, for a payload that is
\* searched and has a pointer URL, the first setdefault; without one it
\* returns (line 681), and a failed fetch returns the URL or raises.
DMetaGet(h, okP, okV) ==
    /\ h \in 1..Len(dtasks)
    /\ dtasks[h].kind = "meta"
    /\ dtasks[h].state = "queued"
    /\ LET k == dtasks[h].key
           first == FetchOk(k, okP, okV) /\ DMetaHasPointer(k, 1)
       IN /\ dtasks' = [dtasks EXCEPT ![h] =
                          IF FetchRaises(k, okP, okV)
                          THEN [@ EXCEPT !.state = "done", !.ok = FALSE]
                          ELSE IF first
                          THEN [@ EXCEPT !.state = "fetched", !.pos = 2,
                                         !.result = FetchResult(k, okP, okV)]
                          ELSE [@ EXCEPT !.state = "done",
                                         !.result = FetchResult(k, okP, okV)]]
          /\ lookup_dict' = IF first /\ IsUrlString(server[PayloadOf(k)].links[1])
                            THEN setdefault(lookup_dict, server[PayloadOf(k)].links[1])
                            ELSE lookup_dict
    /\ gets' = Sent(gets, FetchUrls(dtasks[h].key, okP))
    /\ UNCHANGED <<xvars, uvars, server, dshut, options, dpc, dcopy, didx,
                   downloads_complete, built, derr>>

\* lines 676 and 680: the worker adds the next pointer URL of the payload
DMetaAdd(h) ==
    /\ h \in 1..Len(dtasks)
    /\ dtasks[h].kind = "meta"
    /\ dtasks[h].state = "fetched"
    /\ DMetaHasPointer(dtasks[h].key, dtasks[h].pos)
    /\ lookup_dict' =
           IF IsUrlString(server[PayloadOf(dtasks[h].key)].links[dtasks[h].pos])
           THEN setdefault(lookup_dict, server[PayloadOf(dtasks[h].key)].links[dtasks[h].pos])
           ELSE lookup_dict
    /\ dtasks' = [dtasks EXCEPT ![h].pos = @ + 1]
    /\ UNCHANGED <<xvars, uvars, server, dshut, options, dpc, dcopy, didx,
                   downloads_complete, built, derr, gets>>

\* line 681: the worker returns the payload
DMetaDone(h) ==
    /\ h \in 1..Len(dtasks)
    /\ dtasks[h].kind = "meta"
    /\ dtasks[h].state = "fetched"
    /\ ~DMetaHasPointer(dtasks[h].key, dtasks[h].pos)
    /\ dtasks' = [dtasks EXCEPT ![h].state = "done"]
    /\ UNCHANGED <<xvars, uvars, server, dshut, options, lookup_dict, dpc, dcopy, didx,
                   downloads_complete, built, derr, gets>>

\* a pool worker runs session.get(location)
DByteRun(h, okB) ==
    /\ h \in 1..Len(dtasks)
    /\ dtasks[h].kind = "byte"
    /\ dtasks[h].state = "queued"
    /\ dtasks' = [dtasks EXCEPT ![h] = [@ EXCEPT !.state = "done", !.ok = okB]]
    /\ gets' = Sent(gets, <<LocationUrl(PayloadOf(dtasks[h].key))>>)
    /\ UNCHANGED <<xvars, uvars, server, dshut, options, lookup_dict, dpc, dcopy, didx,
                   downloads_complete, built, derr>>

AllDTasksDone == \A h \in 1..Len(dtasks) : DHandleDone(h)

\* a variant that leaves every pointer field as it is
populate_resource_pointers_kept(links, d) ==
    [i \in 1..Len(links) |-> IF IsUrlString(links[i]) THEN UrlV(links[i]) ELSE LinksV(0)]
\* a variant that puts a separate copy of the object into every position
populate_resource_pointers_copies(links, d) ==
    [i \in 1..Len(links) |->
        IF ~IsUrlString(links[i]) THEN LinksV(0)
        ELSE IF d[links[i]].t = "absent" THEN UrlV(links[i])
        ELSE IF d[links[i]].t = "payload" THEN ResV(links[i] + 100 * i)
        ELSE UrlV(d[links[i]].a)]
\* utils.populate_resource_pointers: the pointer fields of a resource whose
\* payload held the URLs links, given the table d
populate_resource_pointers(links, d) ==
    [i \in 1..Len(links) |->
        IF ~IsUrlString(links[i]) THEN LinksV(0)
        ELSE IF d[links[i]].t = "absent" THEN UrlV(links[i])
        ELSE IF d[links[i]].t = "payload" THEN ResV(links[i])
        ELSE UrlV(d[links[i]].a)]
\* utils.build_resource_from_json, lines 266-268: the _url of the resource
\* built for key k (process_uploaded_resource(resource, url) unless copy)
build_resource_from_json(k, copy) == IF copy THEN NoneV ELSE UrlV(k)
\* utils.build_resource_from_json raises for a file whose byte response failed
BuildRaises(d, k) ==
    d[k].t = "payload" /\ server[PayloadOf(k)].kind = "file" /\ ~d[k].ok
\* utils.py line 289 (and 282): setattr of a pointer field; the change
\* observer (change_only=True) fires when some value of the field differs
\* from the URL the payload held
PointerChanged(links, d) ==
    \E i \in 1..Len(links) :
        IsUrlString(links[i]) /\ populate_resource_pointers(links, d)[i] # UrlV(links[i])
\* the _touched of a built resource: cleared by process_uploaded_resource
\* unless copy (utils.py 266-268, 196), then set by the observer that
\* process_uploaded_resource installed when populate_resource_pointers
\* changes a pointer field (utils.py 189-195, 176)
touched_after_download(links, d, copy) ==
    IF copy THEN "unset"
    ELSE IF PointerChanged(links, d) THEN "true"
    ELSE "false"
\* lines 606-614: what lookup_dict holds for key k in the end
Materialized(d, k) ==
    IF d[k].t = "payload"
    THEN [t |-> "object", a |-> d[k].a, url |-> build_resource_from_json(k, options.copy),
          fields |-> populate_resource_pointers(server[d[k].a].links, d),
          touched |-> touched_after_download(server[d[k].a].links, d, options.copy)]
    ELSE IF d[k].t = "failed"
    THEN [t |-> "failed", a |-> d[k].a, url |-> NoneV, fields |-> << >>, touched |-> "unset"]
    ELSE BuiltAbsent

\* lines 602-621: shutdown(wait=True), build the resources, rewrite the pointers
DFinish ==
    /\ dpc = "shutdown"
    /\ AllDTasksDone
    /\ IF \E k \in DKeys : BuildRaises(lookup_dict, k)
       THEN /\ dpc' = "raised"
            /\ derr' = DErr("FileValueError",
                            CHOOSE k \in DKeys : BuildRaises(lookup_dict, k))
            /\ UNCHANGED built
       ELSE /\ dpc' = "returned"
            /\ built' = [k \in DKeys |-> Materialized(lookup_dict, k)]
            /\ UNCHANGED derr
    /\ dshut' = TRUE
    /\ UNCHANGED <<xvars, uvars, server, options, lookup_dict, dtasks, dcopy, didx,
                   downloads_complete, gets>>

\* lines 601-602 on the error path: shutdown(wait=True), then the error propagates
DRaise ==
    /\ dpc = "raising"
    /\ AllDTasksDone
    /\ dpc' = "raised"
    /\ dshut' = TRUE
    /\ UNCHANGED <<xvars, uvars, server, options, lookup_dict, dtasks, dcopy, didx,
                   downloads_complete, built, derr, gets>>

NextDownload ==
    \/ DStart
    \/ DSubmitMetaPool
    \/ \E okP, okV \in BOOLEAN : DSubmitMetaSync(okP, okV)
    \/ DPollMetaPending
    \/ DPollMetaResult
    \/ DPollMetaRaises
    \/ DSkip
    \/ DSubmitBytePool
    \/ \E okB \in BOOLEAN : DSubmitByteSync(okB)
    \/ DPollBytePending
    \/ DPollByteResult
    \/ DScanEnd
    \/ \E h \in 1..Len(dtasks), okP, okV \in BOOLEAN : DMetaGet(h, okP, okV)
    \/ \E h \in 1..Len(dtasks) : DMetaAdd(h)
    \/ \E h \in 1..Len(dtasks) : DMetaDone(h)
    \/ \E h \in 1..Len(dtasks), okB \in BOOLEAN : DByteRun(h, okB)
    \/ DFinish
    \/ DRaise

vars == <<uvars, dvars, xvars>>
Spec == Init /\ [][Next]_vars
SpecDownload == InitDownload /\ [][NextDownload]_vars
InitChunks == UploadAtRest /\ DownloadAtRest /\ ChunkInit /\ tcall = NoCall
SpecChunks == InitChunks /\ [][NextChunks]_vars
(* ---------------------------------------------------------------------- *)
(* session.py: Session.delete                                             *)
(* ---------------------------------------------------------------------- *)
\* the caller sets _links on a resource object
AssignLinks(r) ==
    /\ obj[r].links = NoneV
    /\ obj' = [obj EXCEPT ![r].links = LinksV(PresetId(r))]
    /\ tcall' = Call("assign_links", ResV(r), FALSE, NoneV, << >>)
    /\ UtilsFrame

\* lines 696-704: the URL the DELETE request goes to, None where the call
\* raises before a request
delete_url(o, v) ==
    IF v.t = "url" THEN v
    ELSE IF o[v.id].links # NoneV THEN SelfOf(o[v.id].links)
    ELSE NoneV
\* lines 705-709: the objects after the call, given the ok of the response
delete(o, v, okv) ==
    IF delete_url(o, v) # NoneV /\ okv /\ v.t = "res"
    THEN [o EXCEPT ![v.id].links = NoneV]
    ELSE o
\* lines 700-707: how the call ends and which response it got
delete_outcome(o, v, okv) ==
    IF delete_url(o, v) = NoneV THEN <<"ValueError", "none">>
    ELSE IF ~okv THEN <<"ValueError", "failed">>
    ELSE <<"returned", "ok">>

\* session.delete(v); the url of the record is the URL of the one request
CallDelete(v, okv) ==
    /\ obj' = delete(obj, v, okv)
    /\ tcall' = Call("delete", v, FALSE, delete_url(obj, v), delete_outcome(obj, v, okv))
    /\ UtilsFrame

\* delete called on URL strings and on resource objects that are new, that
\* carry links the caller set, or that process_uploaded_resource gave a URL
NextDelete ==
    \/ \E r \in Res : AssignLinks(r)
    \/ \E r \in Res : CallProcessUploadedResource(r, UrlV(DownloadId(r)))
    \/ \E r \in Res : AssignField(r)
    \/ \E v \in Values, okv \in BOOLEAN : CallDelete(v, okv)
InitDelete == UploadAtRest /\ DownloadAtRest /\ ChunksAtRest /\ tcall = NoCall
SpecDelete == InitDelete /\ [][NextDelete]_vars
\* three new resource objects without pointers, and nothing else in progress
InitObjects == UploadAtRest /\ DownloadAtRest /\ ChunksAtRest /\ tcall = NoCall
SpecObjects == InitObjects /\ [][NextObjects]_vars
\* new resource objects in any graph; a resource the root does not lead to
\* is a resource outside the graph
InitGraph ==
    /\ fields \in Graphs
    /\ obj = [r \in Res |-> NewObject]
    /\ tasks = << >>
    /\ executor = "sync"
    /\ thumbnail = FALSE
    /\ invalid = {}
    /\ unhashable = {}
    /\ ushut = FALSE
    /\ store = EmptyStore
    /\ upc = "idle"
    /\ ulist = << >>
    /\ uidx = 1
    /\ ucomplete = TRUE
    /\ fileq = << >>
    /\ dsnap = << >>
    /\ wlog = {}
    /\ sublog = << >>
    /\ finlog = {}
    /\ uret = NoneV
    /\ uerr = NoErr
    /\ calls = 0
    /\ hist = NoHist
    /\ DownloadAtRest
    /\ ChunksAtRest
    /\ tcall = NoCall
SpecGraph == InitGraph /\ [][NextGraph]_vars
NextDownloadAny == NextDownload \/ DHandleNotFuture
SpecDownloadAny == InitDownloadAny /\ [][NextDownloadAny]_vars

\* The thread that runs download keeps running, and the pool runs every task
\* that was submitted to it: the steps of the loop and the steps of the
\* workers are each taken when they stay possible.
DLoop ==
    \/ DStart
    \/ DSubmitMetaPool
    \/ \E okP, okV \in BOOLEAN : DSubmitMetaSync(okP, okV)
    \/ DPollMetaPending
    \/ DPollMetaResult
    \/ DPollMetaRaises
    \/ DSkip
    \/ DSubmitBytePool
    \/ \E okB \in BOOLEAN : DSubmitByteSync(okB)
    \/ DPollBytePending
    \/ DPollByteResult
    \/ DScanEnd
    \/ DFinish
    \/ DRaise
DWorkers ==
    \/ \E h \in 1..Len(dtasks), okP, okV \in BOOLEAN : DMetaGet(h, okP, okV)
    \/ \E h \in 1..Len(dtasks) : DMetaAdd(h)
    \/ \E h \in 1..Len(dtasks) : DMetaDone(h)
    \/ \E h \in 1..Len(dtasks), okB \in BOOLEAN : DByteRun(h, okB)
FairDownload == SpecDownload /\ WF_vars(DLoop) /\ WF_vars(DWorkers)

\* the steps of the pool workers of upload: _upload, and utils.upload_array
\* or utils.upload_image
UWorkers ==
    \/ \E h \in 1..Len(tasks), okW \in BOOLEAN : TaskRequest(h, okW)
    \/ \E h \in 1..Len(tasks), okT \in BOOLEAN : TaskFinish(h, okT)
    \/ \E h \in 1..Len(tasks), okF \in BOOLEAN : FileRun(h, okF)

\* Upload calls in which every resource validates, every value is hashable
\* and every transport call answers with success.
InitSuccess == Init /\ invalid = {} /\ unhashable = {}
\* the statements of the thread that called upload
ULoopSuccess ==
    \/ StartUpload
    \/ ScanSkip
    \/ ScanFinalize
    \/ ScanWait
    \/ ScanBlocked
    \/ ScanSubmitPool
    \/ ScanSubmitSync(TRUE, TRUE, TRUE, TRUE)
    \/ ScanEnd
    \/ DrainStep
    \/ DrainAgain
    \/ Return
\* the statements of the pool workers
UWorkersSuccess ==
    \/ \E h \in 1..Len(tasks) : TaskRequest(h, TRUE)
    \/ \E h \in 1..Len(tasks) : TaskFinish(h, TRUE)
    \/ \E h \in 1..Len(tasks) : FileRun(h, TRUE)
NextSuccess == ULoopSuccess \/ UWorkersSuccess
SpecSuccess == InitSuccess /\ [][NextSuccess]_vars
\* the calling thread has a statement to execute: it can start a call, it
\* is in the scan loop, or it is in the drain loop with a handle to look at
\* or with shutdown(wait=True) able to return
LoopCanStep ==
    \/ Idle /\ calls < MaxCalls
    \/ upc = "scan"
    \/ upc = "drain" /\ (dsnap # << >> \/ fileq # << >> \/ AllTasksDone)
\* the calling thread keeps running (weak fairness of ULoopSuccess, with its
\* enabling condition written out) and the pool runs every queued task
FairUpload ==
    /\ SpecSuccess
    /\ ([]<>(~LoopCanStep) \/ []<><<ULoopSuccess>>_vars)
    /\ WF_vars(UWorkersSuccess)
\* get_default_executor(parallel=True, workers=1) returns
\* ThreadPoolExecutor(max_workers=1): its one worker thread takes the tasks
\* in the order of submission and starts a task only after the task before
\* it has returned or raised.
UWorkerBusy == \E g \in 1..Len(tasks) : tasks[g].state = "responded"
UNextInLine(h) ==
    /\ ~UWorkerBusy
    /\ tasks[h].state = "queued"
    /\ \A g \in 1..Len(tasks) : tasks[g].state = "queued" => h <= g
DWorkerBusy == \E g \in 1..Len(dtasks) : dtasks[g].state = "fetched"
DNextInLine(h) ==
    /\ ~DWorkerBusy
    /\ dtasks[h].state = "queued"
    /\ \A g \in 1..Len(dtasks) : dtasks[g].state = "queued" => h <= g
\* the statements of the one worker thread, in upload and in download
UWorkersOne ==
    \/ \E h \in 1..Len(tasks) : UNextInLine(h) /\ TaskRequest(h, TRUE)
    \/ \E h \in 1..Len(tasks) : TaskFinish(h, TRUE)
    \/ \E h \in 1..Len(tasks) : UNextInLine(h) /\ FileRun(h, TRUE)
DWorkersOne ==
    \/ \E h \in 1..Len(dtasks), okP, okV \in BOOLEAN :
           DNextInLine(h) /\ DMetaGet(h, okP, okV)
    \/ \E h \in 1..Len(dtasks) : DMetaAdd(h)
    \/ \E h \in 1..Len(dtasks) : DMetaDone(h)
    \/ \E h \in 1..Len(dtasks), okB \in BOOLEAN :
           DNextInLine(h) /\ DByteRun(h, okB)
\* One operation of a session whose pool has one worker: upload calls in
\* which every response is a success, or one download call.
UploadOneWorker == DownloadAtRest /\ (ULoopSuccess \/ UWorkersOne)
DownloadOneWorker == UploadAtRest /\ (DLoop \/ DWorkersOne)
NextOneWorker == UploadOneWorker \/ DownloadOneWorker
SpecOneWorker == (InitSuccess \/ InitDownload) /\ [][NextOneWorker]_vars
\* the calling thread keeps running and the worker thread runs whenever it
\* has a task to run
FairOneWorker ==
    /\ SpecOneWorker
    /\ ([]<>(~(DownloadAtRest /\ LoopCanStep)) \/ []<><<DownloadAtRest /\ ULoopSuccess>>_vars)
    /\ WF_vars(DownloadAtRest /\ UWorkersOne)
    /\ WF_vars(UploadAtRest /\ DLoop)
    /\ WF_vars(UploadAtRest /\ DWorkersOne)
\* A session that runs one operation: upload calls on a graph while download
\* was never called, or one download call while upload was never called.
OneOperation ==
    \/ DownloadAtRest /\ Next
    \/ UploadAtRest /\ NextDownload
SpecSession == (Init \/ InitDownload) /\ [][OneOperation]_vars

(* ---------------------------------------------------------------------- *)
(* session.download(session.upload(root)) against one transport            *)
(* ---------------------------------------------------------------------- *)
\* The download model names the URL of resource r by the key r, whichever of
\* its URLs (ServerId, PresetId, DownloadId) the resource was stored under.
TransportKey(n) == n % 10
\* resp.json() of a GET: the stored body, its pointer values as stored
StoredBody(r) ==
    IF \E u \in StoreUrls : TransportKey(u) = r /\ store[u].t = "body"
    THEN store[CHOOSE u \in StoreUrls : TransportKey(u) = r /\ store[u].t = "body"]
    ELSE NoBody
StoredPayload(r) ==
    [links |-> [i \in 1..Len(StoredBody(r).fields) |->
                   IF StoredBody(r).fields[i].t = "url"
                   THEN TransportKey(StoredBody(r).fields[i].id) ELSE Mapping],
     kind |-> IF StoredBody(r).file THEN "file" ELSE "plain"]

\* The graphs of resource objects only, all of them new; the caller may have
\* set _links on the root (upload returns resource._links['self'], line 284).
RoundTripInit ==
    /\ UploadInit
    /\ DownloadAtRest
    /\ OthersAtRest
    /\ \A r \in Res : \A i \in 1..Len(fields[r]) : fields[r][i].t = "res"
    /\ obj[Root] \in {NewObject, LinkedObject(Root)}
    /\ \A r \in Res \ {Root} : obj[r] = NewObject
    /\ invalid = {}
    /\ unhashable = {}
    /\ ~thumbnail

RoundTripOptions ==
    {o \in Options : o.url = TransportKey(uret.id) /\ o.recursive}

\* download(url) for the URL upload returned (lines 539-547), the server
\* holding what the transport stored
DownloadUploaded(o) ==
    /\ upc = "returned"
    /\ dpc = "idle"
    /\ o \in RoundTripOptions
    /\ options' = o
    /\ server' = [r \in DRes |-> StoredPayload(r)]
    /\ dpc' = "scan"
    /\ lookup_dict' = [k \in DKeys |-> IF k = o.url THEN NoneValue ELSE Absent]
    /\ dcopy' = [k \in DKeys |-> IF k = o.url THEN NoneValue ELSE Absent]
    /\ didx' = 1
    /\ downloads_complete' = TRUE
    /\ dshut' = FALSE
    /\ UNCHANGED <<xvars, uvars, dtasks, built, derr, gets>>

\* some pointer value of a fetched payload is a mapping
HoldsMapping(d) ==
    \E k \in DKeys : d[k].t = "payload"
        /\ \E i \in 1..Len(server[d[k].a].links) : ~IsUrlString(server[d[k].a].links[i])

\* lines 606-614 for a payload with a pointer value that is a mapping: the
\* value is no key of lookup_dict; deserializing it (line 235) or looking it
\* up (lines 278 and 286, a dict is unhashable) may raise
DBuildRaises ==
    /\ dpc = "shutdown"
    /\ AllDTasksDone
    /\ HoldsMapping(lookup_dict)
    /\ dpc' = "raised"
    /\ derr' = DErr("TypeError", CHOOSE k \in DKeys : lookup_dict[k].t = "payload")
    /\ dshut' = TRUE
    /\ UNCHANGED <<xvars, uvars, server, options, lookup_dict, dtasks, dcopy, didx,
                   downloads_complete, built, gets>>

\* One upload call after another on the graph, then one download of what
\* the last call returned.  The root is no file, so the byte fetches of lines
\* 576-598 need the payload of a child.
NextRoundTrip ==
    \/ dpc = "idle" /\ StartUpload
    \/ ScanSkip
    \/ ScanFinalize
    \/ ScanResultRaises
    \/ ScanWait
    \/ ScanBlocked
    \/ ScanSubmitPool
    \/ \E okW, okT, okP, okI \in BOOLEAN : ScanSubmitSync(okW, okT, okP, okI)
    \/ \E h \in 1..Len(tasks), okW \in BOOLEAN : TaskRequest(h, okW)
    \/ \E h \in 1..Len(tasks), okT \in BOOLEAN : TaskFinish(h, okT)
    \/ \E h \in 1..Len(tasks), okF \in BOOLEAN : FileRun(h, okF)
    \/ ScanEnd
    \/ DrainStep
    \/ DrainAgain
    \/ Return
    \/ Raise
    \/ \E o \in Options : DownloadUploaded(o)
    \/ DSubmitMetaPool
    \/ \E okP, okV \in BOOLEAN : DSubmitMetaSync(okP, okV)
    \/ DPollMetaPending
    \/ DPollMetaResult
    \/ DPollMetaRaises
    \/ DSkip
    \/ DScanEnd
    \/ \E h \in 1..Len(dtasks), okP, okV \in BOOLEAN : DMetaGet(h, okP, okV)
    \/ \E h \in 1..Len(dtasks) : DMetaAdd(h)
    \/ \E h \in 1..Len(dtasks) : DMetaDone(h)
    \/ DFinish
    \/ DBuildRaises
    \/ DRaise
SpecRoundTrip == RoundTripInit /\ [][NextRoundTrip]_vars

(* ---------------------------------------------------------------------- *)
(* Properties of upload                                                   *)
(* ---------------------------------------------------------------------- *)
\* DONE: the resource has a server identity and a clear dirty flag
IsDone(r) == obj[r].url # NoneV /\ obj[r].touched = "false"
\* the resources among the entries the walker returns for r
Descendants(r) ==
    {c \in Res : \E i \in 1..Len(compute_children(fields, r)) :
                    compute_children(fields, r)[i] = ResV(c)}
InCall == upc \in {"scan", "drain", "raising"}
SubmittedAt(r) == CHOOSE i \in 1..Len(sublog) : sublog[i] = r
Submitted(r) == \E i \in 1..Len(sublog) : sublog[i] = r
IsChain == fields[1] = <<ResV(2)>> /\ fields[2] = <<ResV(3)>>

Parents(c) == {p \in Res : Reachable(fields, p) /\ \E i \in 1..Len(fields[p]) : fields[p][i] = ResV(c)}
SharedChild(c) == Cardinality(Parents(c)) >= 2
InList(c) == \E i \in 1..Len(ulist) : ulist[i] = ResV(c)
TimesSubmitted(c) == Cardinality({i \in 1..Len(sublog) : sublog[i] = c})
TimesListed(c) ==
    Cardinality({i \in 1..Len(compute_children(fields, Root)) :
                    compute_children(fields, Root)[i] = ResV(c)})

\* C2: a child that two parents share is listed once by compute_children of
\* the root, and when the scan loop of an upload call has completed, exactly
\* one write task was submitted during the call for every shared child that
\* was not in sync when the call started.
C2_SharedChildWrittenOnce ==
    \A c \in Res : SharedChild(c) =>
        /\ TimesListed(c) = 1
        /\ (upc = "drain" /\ InList(c)) => TimesSubmitted(c) = 1

WriteMethods == {"POST", "PATCH"}
FailedWrites == {q \in wlog : q.method \in WriteMethods /\ ~q.ok}
Unmutated == hist.mutated = {}

\* C3: an upload call started after a call that returned, with no field
\* mutated in between, submits no write task, sends no request, finalizes no
\* resource, does not raise, and returns the value the earlier call returned.
C3_SecondUploadIdempotent ==
    hist.startClean =>
        /\ sublog = << >>
        /\ wlog = {}
        /\ finlog = {}
        /\ upc \notin {"raising", "raised"}
        /\ upc = "returned" => uret = hist.startRet
C3_Witness ==
    /\ hist.startClean
    /\ upc = "returned"
    /\ uret = hist.startRet
    /\ fields[Root] # << >>

\* C4: a resource with a server identity has the change observer installed,
\* so every field mutation since the last call left it dirty; when the scan
\* loop of a call has completed, and when a call has returned and nothing
\* was mutated since, every resource of the graph is DONE (identity, clear
\* dirty flag) with the observer still installed.
C4_DirtyTracking ==
    /\ \A r \in Res : obj[r].url # NoneV => obj[r].observer
    /\ \A r \in hist.mutated : obj[r].url # NoneV => Touched(obj[r])
    /\ (upc = "drain" \/ (upc = "returned" /\ Unmutated)) =>
           \A r \in Res : Reachable(fields, r) => IsDone(r) /\ obj[r].observer
C4_Witness ==
    /\ upc = "returned"
    /\ \E r \in hist.mutated :
           /\ \E x \in finlog : x.res = r
           /\ obj[r].url # NoneV
           /\ Touched(obj[r])

\* the resource of the request had a server identity (_url set by
\* process_uploaded_resource, or _links set by the caller) when it was sent
HadIdentity(q) == q.url # NoneV \/ q.links # NoneV
OwnUrls(q) ==
    (IF q.url # NoneV THEN {q.url, SelfOf(q.url)} ELSE {})
    \cup (IF q.links # NoneV THEN {SelfOf(q.links)} ELSE {})

\* C5: every write request of an upload call for a resource that had a
\* server identity and a set dirty flag is a PATCH to the resource's own
\* URL, and every write request for a resource without a server identity is
\* a POST to the collection URL of its type.
C5_PatchForModified ==
    \A q \in wlog : q.method \in WriteMethods =>
        /\ (HadIdentity(q) /\ q.touched) =>
               q.method = "PATCH" /\ q.target \in OwnUrls(q)
        /\ ~HadIdentity(q) =>
               q.method = "POST" /\ q.target = UrlV(CollectionId(q.res))

\* C6 as stated: when a call has raised, the error is the failure of every
\* write of the call that got a non-success response.
C6_EveryFailureSurfaced ==
    upc = "raised" => \A q \in FailedWrites : uerr = Err("ValueError", q.res, uerr.submitted)

\* the write tasks of earlier calls that failed and whose handle is still on
\* the resource
StaleFailures ==
    {h \in 1..Len(tasks) : /\ tasks[h].kind = "write"
                           /\ tasks[h].call < calls
                           /\ tasks[h].state = "done"
                           /\ ~tasks[h].ok
                           /\ obj[tasks[h].res].future_links = h}

\* C6: a call in which a write got a non-success response never leaves the
\* scan loop normally; an error of kind ValueError raised by the scan is the
\* failure of a write of this call or of a write whose handle an earlier
\* call left on the resource, and with the inline executor every failed
\* write of the call is the error raised; no write task is submitted once
\* an error was raised; every resource finalized during the call stays DONE.
C6_WriteFailureAborts ==
    /\ FailedWrites # {} => upc \in {"scan", "raising", "raised"}
    /\ uerr.kind = "ValueError" =>
           \/ \E q \in FailedWrites : q.res = uerr.res
           \/ \E h \in StaleFailures : tasks[h].res = uerr.res
    /\ (executor = "sync" /\ FailedWrites # {}) =>
           /\ upc \in {"raising", "raised"}
           /\ \A q \in FailedWrites : uerr.kind = "ValueError" /\ uerr.res = q.res
    /\ uerr # NoErr => Len(sublog) = uerr.submitted
    /\ Unmutated => \A x \in finlog : IsDone(x.res)
C6_Witness ==
    /\ executor = "pool"
    /\ upc = "raised"
    /\ uerr.kind = "ValueError"
    /\ finlog # {}
    /\ \E q \in FailedWrites : q.res = uerr.res

FileTasksOfCall == {h \in 1..Len(tasks) : tasks[h].kind = "file" /\ tasks[h].call = calls}

\* C7: when a call has returned, every byte-upload handle created during
\* the call is done with a success response; while the drain runs every
\* resource of the graph is DONE and every byte-upload handle of the call
\* that is not in the queue is done with a success response; a call that
\* raised for a byte upload names one whose response was a non-success.
C7_DrainBeforeReturn ==
    /\ upc = "returned" =>
           \A h \in FileTasksOfCall : tasks[h].state = "done" /\ tasks[h].ok
    /\ upc = "drain" =>
           /\ \A r \in Res : Reachable(fields, r) => IsDone(r)
           /\ \A h \in FileTasksOfCall :
                  (\E i \in 1..Len(fileq) : fileq[i] = h)
                  \/ (tasks[h].state = "done" /\ tasks[h].ok)
    /\ uerr.kind = "FileValueError" =>
           \E h \in FileTasksOfCall :
               tasks[h].res = uerr.res /\ tasks[h].state = "done" /\ ~tasks[h].ok
C7_Witness ==
    /\ upc = "returned"
    /\ executor = "pool"
    /\ Cardinality(FileTasksOfCall) >= 2

(* ---------------------------------------------------------------------- *)
(* Properties of download                                                 *)
(* ---------------------------------------------------------------------- *)
MetaTasksOf(k) == {h \in 1..Len(dtasks) : dtasks[h].kind = "meta" /\ dtasks[h].key = k}
ByteTasksOf(k) == {h \in 1..Len(dtasks) : dtasks[h].kind = "byte" /\ dtasks[h].key = k}
\* the metadata fetch of URL u returned a payload / returned the URL string
FetchSucceeded(u) ==
    \E h \in MetaTasksOf(u) :
        dtasks[h].state = "done" /\ dtasks[h].ok /\ dtasks[h].result.t = "payload"
FetchFailed(u) ==
    \E h \in MetaTasksOf(u) :
        dtasks[h].state = "done" /\ dtasks[h].ok /\ dtasks[h].result.t = "failed"
RawLinks(k) == server[PayloadOf(k)].links

\* C8: when a recursive download has returned, every materialized resource
\* has one field value per pointer URL of its raw payload; the value is the
\* object materialized for that URL when the URL's metadata fetch succeeded,
\* and the URL string itself when the fetch failed under allow_failure.
C8_PointersRewritten ==
    (dpc = "returned" /\ options.recursive) =>
        \A k \in DKeys : built[k].t = "object" =>
            /\ Len(built[k].fields) = Len(RawLinks(k))
            /\ \A i \in 1..Len(RawLinks(k)) :
                   /\ FetchSucceeded(RawLinks(k)[i]) =>
                          /\ built[k].fields[i] = ResV(RawLinks(k)[i])
                          /\ built[RawLinks(k)[i]].t = "object"
                   /\ FetchFailed(RawLinks(k)[i]) =>
                          built[k].fields[i] = UrlV(RawLinks(k)[i])
C8_Witness ==
    /\ dpc = "returned"
    /\ options.recursive
    /\ options.allow_failure
    /\ built[1].t = "object"
    /\ \E i, j \in 1..Len(RawLinks(1)) :
           /\ FetchSucceeded(RawLinks(1)[i])
           /\ built[1].fields[i].t = "res"
           /\ FetchFailed(RawLinks(1)[j])
           /\ built[1].fields[j].t = "url"

\* C9: at every moment of a download at most one metadata-fetch task and at
\* most one byte-fetch task has been submitted for any URL key.
C9_OneFetchPerKey ==
    \A k \in DKeys :
        /\ Cardinality(MetaTasksOf(k)) <= 1
        /\ Cardinality(ByteTasksOf(k)) <= 1
C9_Witness ==
    /\ dpc = "returned"
    /\ options.executor = "pool"
    /\ Points(server, 1, 2) /\ Points(server, 1, 3) /\ Points(server, 2, 3)
    /\ built[2].t = "object"
    /\ Cardinality(MetaTasksOf(3)) = 1
    /\ Cardinality(ByteTasksOf(3)) = 1

DKeysOf(d) == {k \in DKeys : d[k].t # "absent"}
\* the polling loop was left through the break of line 600
LoopExited ==
    \/ dpc \in {"shutdown", "returned"}
    \/ dpc = "raised" /\ derr.kind = "FileValueError"

\* C10: when the polling loop has exited normally, no value of the table is
\* None or a handle, no payload's location is a URL string or a handle,
\* every task is done, and the last snapshot scanned had every key of the
\* table (no key a worker added was missed).
C10_LoopExitResolved ==
    LoopExited =>
        /\ \A k \in DKeys :
               /\ lookup_dict[k].t \notin {"none", "handle"}
               /\ lookup_dict[k].t = "payload" => lookup_dict[k].loc \in {"absent", "response"}
        /\ \A h \in 1..Len(dtasks) : dtasks[h].state = "done"
        /\ DKeysOf(dcopy) = DKeysOf(lookup_dict)
C10_Witness ==
    /\ dpc = "shutdown"
    /\ options.executor = "pool"
    /\ DKeysOf(lookup_dict) = DRes
    /\ lookup_dict[3].loc = "response"
    /\ lookup_dict[2].t = "payload"

\* the metadata fetch of some key returned a non-success response
SomeFetchFailed ==
    \E h \in 1..Len(dtasks) :
        /\ dtasks[h].kind = "meta" /\ dtasks[h].state = "done"
        /\ (~dtasks[h].ok \/ dtasks[h].result.t = "failed")
SomeByteFailed ==
    \E h \in 1..Len(dtasks) :
        dtasks[h].kind = "byte" /\ dtasks[h].state = "done" /\ ~dtasks[h].ok
DEnded == dpc \in {"returned", "raised"}

ExpandedPayload(k) ==
    /\ options.recursive
    /\ server[PayloadOf(k)].kind # "slide"
    /\ \E h \in MetaTasksOf(k) :
           dtasks[h].state \in {"fetched", "done"} /\ dtasks[h].result.t = "payload"
IsSlide(k) == server[PayloadOf(k)].kind = "slide"

\* C12: every key of the table other than the requested URL is a pointer URL
\* of a fetched payload that is not a slide, in a recursive download; a
\* download whose root payload is a slide has the requested URL as its only
\* key and submits one metadata fetch, whatever the recursive flag is.
C12_SlideNotExpanded ==
    /\ \A c \in DKeysOf(lookup_dict) :
           c # options.url =>
               \E p \in DKeysOf(lookup_dict) : ExpandedPayload(p) /\ Points(server, PayloadOf(p), c)
    /\ IsSlide(options.url) =>
           /\ DKeysOf(lookup_dict) \subseteq {options.url}
           /\ \A h \in 1..Len(dtasks) : dtasks[h].key = options.url
           /\ Len(dtasks) <= 1
C12_Witness ==
    /\ dpc = "returned"
    /\ options.recursive
    /\ IsSlide(options.url)
    /\ Len(server[1].links) = 2
    /\ built[options.url].t = "object"
    /\ \A i \in 1..2 : built[options.url].fields[i].t = "url"
    /\ Len(dtasks) = 1

MetadataUrls == DRes \cup {AppKey, ProjectUrl, ViewUrl}
MetaGets == {u \in MetadataUrls : gets[u] > 0}

\* C13: a download with recursive=False has the requested URL as the only
\* key of the table and submits one metadata fetch, for that key; the fetch
\* sends one GET to the requested URL (for an app-form URL, to its
\* translations only); the resource returned holds the URL strings of the
\* payload in its pointer fields.
C13_NonRecursive ==
    ~options.recursive =>
        /\ DKeysOf(lookup_dict) \subseteq {options.url}
        /\ Cardinality(MetaTasksOf(options.url)) <= 1
        /\ \A h \in 1..Len(dtasks) : dtasks[h].key = options.url
        /\ IF options.url = AppKey
           THEN MetaGets \subseteq {ProjectUrl, ViewUrl}
           ELSE MetaGets \subseteq {options.url} /\ gets[options.url] <= 1
        /\ dpc = "returned" =>
               /\ Cardinality(MetaTasksOf(options.url)) = 1
               /\ options.url # AppKey => gets[options.url] = 1
               /\ built[options.url].t = "object" =>
                      built[options.url].fields =
                          [i \in 1..Len(RawLinks(options.url)) |-> UrlV(RawLinks(options.url)[i])]
C13_Witness ==
    /\ dpc = "returned"
    /\ ~options.recursive
    /\ options.url = 1
    /\ options.executor = "pool"
    /\ server[1].kind = "plain"
    /\ Len(RawLinks(1)) = 2
    /\ built[1].t = "object"
    /\ \A i \in 1..2 : built[1].fields[i].t = "url"
    /\ gets[1] = 1

\* the metadata fetch of key k got a non-success response (one that the
\* inline executor raised at once is recorded in derr only)
MetaFailed(k) ==
    \/ \E h \in MetaTasksOf(k) :
           dtasks[h].state = "done" /\ (~dtasks[h].ok \/ dtasks[h].result.t = "failed")
    \/ options.executor = "sync" /\ derr = DErr("ValueError", k)
\* the URL whose GET failed last in the fetch of key k
FailedUrl(k) == IF k = AppKey THEN ViewUrl ELSE k

C14_WitnessRaised ==
    /\ dpc = "raised"
    /\ ~options.allow_failure
    /\ options.executor = "pool"
    /\ MetaFailed(2)
    /\ derr = DErr("ValueError", 2)

\* the fetch of the app-form URL fell back to the view-service URL
FellBack == gets[ViewUrl] > 0
\* the GET requests made for an app-form URL: the project-service URL first,
\* the view-service URL only after it, never the app-form URL itself; when
\* both failed and failure is not allowed the call raises
AppFetchOrder ==
    options.url = AppKey =>
        /\ gets[AppKey] = 0
        /\ gets[ProjectUrl] <= 1 /\ gets[ViewUrl] <= gets[ProjectUrl]
        /\ lookup_dict[AppKey].t \in {"handle", "payload", "failed"} => gets[ProjectUrl] = 1
        /\ (FellBack /\ MetaFailed(AppKey) /\ ~options.allow_failure) =>
               dpc \in {"raising", "raised"} /\ derr = DErr("ValueError", AppKey)

\* C15: an app-form URL is fetched from the project-service URL first and
\* from the view-service URL when that fails; after such a fallback no
\* resource the download returns is bound to a server identity; when both
\* fetches fail and failure is not allowed the call raises.
C15_AppUrlFallback ==
    /\ AppFetchOrder
    /\ (options.url = AppKey /\ FellBack /\ dpc = "returned") =>
           \A k \in DKeys : built[k].t = "object" => built[k].url = NoneV

UploadEnded == calls > 0 /\ upc \in {"returned", "raised"}
\* the shutdown of the finally clauses (session.py lines 283 and 602): a
\* call that entered its try statement has shut the executor down, with
\* every task done, when it ends
ShutdownAfterTry ==
    /\ (UploadEnded /\ uerr.kind # "TypeError") => ushut /\ AllTasksDone
    /\ DEnded => dshut /\ AllDTasksDone

\* C16: when an upload or a download call has ended, by returning or by
\* raising, shutdown has been called on its executor.
C16_ShutdownOnEveryExit ==
    /\ UploadEnded => ushut
    /\ DEnded => dshut

\* the handles of the queue q
QueueHandles(q) == {q[i] : i \in 1..Len(q)}
\* A step that reads the result of a handle (the table value or the location
\* turns from the handle into its result, a resource is finalized, a byte
\* upload leaves the queue, or the loop is left by what result() raised)
\* starts in a state where the task of that handle is done.
ResultOnlyWhenDone ==
    /\ \A k \in DKeys :
           /\ (lookup_dict[k].t = "handle" /\ lookup_dict'[k].t # "handle") =>
                  dtasks[lookup_dict[k].a].state = "done"
           /\ (lookup_dict[k].loc = "handle" /\ lookup_dict'[k].loc # "handle") =>
                  dtasks[lookup_dict[k].lh].state = "done"
    /\ (dpc = "scan" /\ dpc' = "raising" /\ options.executor = "pool") =>
           lookup_dict[DKey].t = "handle" /\ dtasks[lookup_dict[DKey].a].state = "done"
    /\ \A x \in finlog' \ finlog : upc = "scan" => tasks[x.handle].state = "done"
    /\ upc = "drain" =>
           \A h \in QueueHandles(fileq) \ QueueHandles(fileq') : tasks[h].state = "done"
    /\ (upc = "scan" /\ upc' = "raising" /\ uerr'.kind = "ValueError" /\ executor = "pool") =>
           obj[Cur].future_links # 0 /\ tasks[obj[Cur].future_links].state = "done"
    /\ (upc = "drain" /\ upc' = "raising") => tasks[Head(dsnap)].state = "done"
\* the loop has a step to take at a handle that is not done: it moves on
LoopNeverWaits ==
    /\ (InDScan /\ DValue.t = "handle" /\ dtasks[DValue.a].state # "done") =>
           ENABLED DPollMetaPending
    /\ (InDScan /\ DValue.t = "payload" /\ DValue.loc = "handle"
            /\ dtasks[DValue.lh].state # "done") => ENABLED DPollBytePending
    /\ (InScan /\ NeedsWork(Cur) /\ obj[Cur].future_links # 0
            /\ tasks[obj[Cur].future_links].state # "done") => ENABLED ScanWait
    /\ (upc = "drain" /\ dsnap # << >> /\ tasks[Head(dsnap)].state # "done") =>
           ENABLED DrainStep

\* C17: in the loops of upload and download the result of a handle is read
\* only in a step that found the handle done, and at a handle that is not
\* done the loop moves on to the next one.
C17_ResultAfterDone == [][ResultOnlyWhenDone]_vars /\ []LoopNeverWaits
C17_Witness ==
    /\ dpc = "scan"
    /\ didx = 3
    /\ lookup_dict[1].t = "payload"
    /\ lookup_dict[2].t = "handle" /\ dtasks[lookup_dict[2].a].state # "done"
    /\ lookup_dict[3].t = "payload"
    /\ lookup_dict[3].loc = "handle" /\ dtasks[lookup_dict[3].lh].state # "done"

IsPrefix(p, q) == Len(p) <= Len(q) /\ \A i \in 1..Len(p) : p[i] = q[i]

\* C18 as stated: a step of a worker leaves the lookup table, the resource
\* set with its handles and the queue of byte-upload handles as they are.
C18_WorkersArePure ==
    /\ [][DWorkers => lookup_dict' = lookup_dict]_vars
    /\ [][UWorkers => (fileq' = fileq /\ ulist' = ulist /\ obj' = obj)]_vars

\* C18: a step of a download worker changes the lookup table only by adding
\* keys that were absent, with the value None; a step of an upload worker
\* changes the queue of byte-upload handles only by appending handles to it,
\* and leaves the resource set and the attributes of every resource alone.
\* No worker step removes or overwrites an entry, and the snapshots the
\* loops iterate are not changed by workers.
C18_WorkersOnlyAdd ==
    /\ [][DWorkers =>
             /\ \A k \in DKeys :
                    \/ lookup_dict'[k] = lookup_dict[k]
                    \/ lookup_dict[k] = Absent /\ lookup_dict'[k] = NoneValue
             /\ dcopy' = dcopy]_vars
    /\ [][UWorkers =>
             /\ IsPrefix(fileq, fileq')
             /\ QueueHandles(fileq') \ QueueHandles(fileq) \subseteq
                    {h \in 1..Len(tasks') : h > Len(tasks) /\ tasks'[h].kind = "file"}
             /\ ulist' = ulist /\ obj' = obj /\ dsnap' = dsnap]_vars
\* a worker of the running download has added the keys 2 and 3, which the
\* snapshot of the loop does not have yet
C18_Witness ==
    /\ dpc = "scan"
    /\ options.executor = "pool"
    /\ \E h \in MetaTasksOf(1) : dtasks[h].state = "fetched"
    /\ lookup_dict[2] = NoneValue /\ dcopy[2] = Absent
    /\ lookup_dict[3] = Absent

\* What a download that returned must have fetched, given the payloads, the
\* arguments and the set F of keys whose fetch failed: the requested URL
\* and, through every payload that was fetched and is searched, its pointer
\* URLs.  None of this refers to the executor.
FailedKeys == {k \in DKeys : lookup_dict[k].t = "failed"}
Expands(F, k) == k \notin F /\ Recurses(PayloadOf(k))
RECURSIVE KeysWithin(_, _, _)
KeysWithin(F, K, n) ==
    IF n = 0 THEN K
    ELSE KeysWithin(F, K \cup {c \in DRes : \E k \in K : Expands(F, k) /\ Points(server, PayloadOf(k), c)},
                    n - 1)
ExpectedKeys(F) == KeysWithin(F, {options.url}, Cardinality(DRes))
ExpectedGets(F, u) ==
    IF u \in DRes THEN (IF u \in ExpectedKeys(F) THEN 1 ELSE 0)
    ELSE IF u = AppKey THEN 0
    ELSE IF u = ProjectUrl THEN (IF options.url = AppKey THEN 1 ELSE 0)
    ELSE IF u = ViewUrl THEN gets[ViewUrl]
    ELSE IF \E k \in ExpectedKeys(F) \ F :
                u = LocationUrl(PayloadOf(k)) /\ server[PayloadOf(k)].kind = "file"
         THEN 1 ELSE 0
\* a download that returned has fetched each expected URL once and nothing
\* else, and has built an object for every expected key that did not fail
DownloadOutcome ==
    dpc = "returned" =>
        /\ DKeysOf(lookup_dict) = ExpectedKeys(FailedKeys)
        /\ \A u \in Urls : gets[u] = ExpectedGets(FailedKeys, u)
        /\ gets[ViewUrl] <= gets[ProjectUrl]
        /\ \A k \in DKeys :
               built[k].t = IF k \notin ExpectedKeys(FailedKeys) THEN "absent"
                            ELSE IF k \in FailedKeys THEN "failed" ELSE "object"
\* The inline executor raises inside submit: a call that raised for the
\* fetch of a key has sent no request for a key that comes later in the
\* sorted table.
DownloadStopsAtFailure ==
    (dpc = "raised" /\ derr.kind = "ValueError") =>
        \A u \in DRes : gets[u] > 0 => u <= derr.key

\* What an upload call on objects without handles of earlier calls must have
\* done when every response was a success, given the graph and the objects
\* at the start of the call: one write task for every resource of the graph
\* that was not up to date, with the request its attributes select, and
\* every one of them finalized.  None of this refers to the executor.
ToUpload == {r \in Res : Reachable(fields, r) /\ ~is_uploaded(hist.start, ResV(r))}
ExpectedWrites ==
    {Request(r, hist.start[r], TRUE) :
        r \in {x \in ToUpload : WriteMethod(hist.start[x]) # "NONE"}}
ExpectedPuts ==
    {ThumbnailRequest(r, hist.start[r], TRUE) :
        r \in {x \in ToUpload : WriteMethod(hist.start[x]) # "NONE" /\ hist.start[x].thumbnail}}
ExpectedObject(r) ==
    IF r \in ToUpload
    THEN process_uploaded_resource(hist.start[r], WriteResult(r, hist.start[r]))
    ELSE hist.start[r]
NoStaleHandles == \A r \in Res : hist.start[r].future_links = 0
EndedWithoutFailure ==
    /\ UploadEnded /\ NoStaleHandles /\ Unmutated
    /\ upc = "returned" \/ uerr.kind = "AttributeError"
UploadOutcome ==
    EndedWithoutFailure =>
        /\ {sublog[i] : i \in 1..Len(sublog)} = ToUpload
        /\ Len(sublog) = Cardinality(ToUpload)
        /\ {q \in wlog : q.method \in WriteMethods} = ExpectedWrites
        /\ {[q EXCEPT !.ok = TRUE] : q \in {x \in wlog : x.method = "PUT"}} = ExpectedPuts
        /\ Cardinality(wlog) = Cardinality(ExpectedWrites) + Cardinality(ExpectedPuts)
        /\ \A r \in Res :
               /\ obj[r].url = ExpectedObject(r).url
               /\ obj[r].links = ExpectedObject(r).links
               /\ obj[r].touched = ExpectedObject(r).touched
               /\ obj[r].observer = ExpectedObject(r).observer
\* The inline executor raises inside submit: a call that raised for a failed
\* write has got one non-success response, from the write it submitted last.
UploadStopsAtFailure ==
    (UploadEnded /\ NoStaleHandles /\ upc = "raised" /\ uerr.kind = "ValueError") =>
        /\ Cardinality({q \in wlog : ~q.ok /\ q.method \in WriteMethods}) = 1
        /\ sublog[Len(sublog)] = uerr.res

\* C19 as stated: whatever the executor, a call ends as the inline run with
\* the same responses ends: with the requests and the objects the inputs
\* determine when no response failed, and with no request after the one
\* whose failure was raised.
C19_ExecutorsEquivalent ==
    /\ UploadOutcome /\ DownloadOutcome
    /\ UploadStopsAtFailure /\ DownloadStopsAtFailure

\* C19: an upload call in which every response succeeds, and a download call
\* that returns, end with the requests, the table keys and the objects that
\* the inputs and the responses determine, under the inline executor and
\* under the pool with any interleaving; the inline executor sends nothing
\* after a failure that is raised.
C19_SameOutcomeWithoutFailure ==
    /\ UploadOutcome /\ DownloadOutcome
    /\ executor = "sync" => UploadStopsAtFailure
    /\ options.executor = "sync" => DownloadStopsAtFailure
C19_Witness ==
    /\ EndedWithoutFailure
    /\ executor = "pool"
    /\ calls = 1
    /\ ToUpload = Res
    /\ Cardinality(wlog) = 4
    /\ \A r \in Res : IsDone(r)

\* C20: a handle that submit stored in the table is polled with done() and
\* replaced by its result; the loop does not end by an error of its own at
\* such a value, whatever executor returned the handle.
C20_HandleTreatedAsPending ==
    \A k \in DKeys :
        ~(dpc \in {"raising", "raised"} /\ derr = DErr("AttributeError", k)
              /\ lookup_dict[k].t = "handle")

(* ---------------------------------------------------------------------- *)
(* Properties of upload followed by download                              *)
(* ---------------------------------------------------------------------- *)
\* the transport answered every GET of the download call with success
EveryGetAnswered == derr.kind # "ValueError" /\ ~SomeFetchFailed
\* the download of the uploaded root has ended
RoundTripEnded == upc = "returned" /\ DEnded
\* the resources of the uploaded graph
Uploaded == {r \in Res : Reachable(fields, r)}

\* C21: uploading a graph of resource objects against a transport that keeps
\* every posted body under the identity it returns, and then downloading the
\* returned root identity recursively, returns a graph equal to the original:
\* one object per original resource, each pointer field holding the object
\* of the original child (a shared child is one object).
C21_RoundTrip ==
    (RoundTripEnded /\ EveryGetAnswered) =>
        /\ dpc = "returned"
        /\ \A r \in Uploaded :
               /\ built[r].t = "object"
               /\ built[r].fields = fields[r]

(* ---------------------------------------------------------------------- *)
(* Properties of upload_array and upload_image                            *)
(* ---------------------------------------------------------------------- *)
\* ceil(a / b) for b > 0
Ceil(a, b) == (a + b - 1) \div b
\* the byte range [First(i), Stop(i)) the i-th write carries
First(i) == puts[i].dat[1]
Stop(i) == puts[i].dat[2]

\* C22: for a payload of length > 0 and a chunk size > 0 the writes are in
\* ascending order, each carries a non-empty byte range that begins where
\* the one before it ended (the first at 0), with Content-Range
\* 'bytes start-(stop-1)/length' and Content-Length stop-start; when the call
\* has returned there were ceil(length / chunk_size) writes, the last range
\* ends at length, and the call returned the response of the last write.
C22_ChunkedUpload ==
    length > 0 =>
        /\ \A i \in 1..Len(puts) :
               /\ First(i) = (IF i = 1 THEN 0 ELSE Stop(i - 1))
               /\ First(i) < Stop(i)
               /\ Stop(i) <= length
               /\ puts[i].content_range =
                      [first |-> First(i), last |-> Stop(i) - 1, total |-> length]
               /\ puts[i].content_length = Stop(i) - First(i)
        /\ cpc # "raised"
        /\ cpc = "returned" =>
               /\ Len(puts) = Ceil(length, chunk_size)
               /\ Stop(Len(puts)) = length
               /\ cret = Response(Len(puts), puts[Len(puts)].ok)

\* upload_image of 2 * chunk_size + 1 bytes has returned after three writes,
\* the last one answered with a failure
C22_Witness ==
    /\ cpc = "returned"
    /\ ckind = "image"
    /\ chunk_size = 3
    /\ length = 2 * chunk_size + 1
    /\ Len(puts) = 3
    /\ puts[3].content_length = 1
    /\ ~cret.ok

(* ---------------------------------------------------------------------- *)
(* Properties of the functions of utils.py                                *)
(* ---------------------------------------------------------------------- *)
\* the resource has a server identity / its dirty flag was cleared and not set since
HasIdentity(r) == obj[r].url # NoneV
FlagClear(r) == obj[r].touched = "false"

\* C23: is_uploaded returns True for a URL string, and for a resource object
\* it returns True exactly when the resource has a server identity and its
\* dirty flag is clear; a flag that was never cleared is not clear.
C23_IsUploaded ==
    tcall.op = "is_uploaded" =>
        tcall.result[1] =
            (IF tcall.val.t = "url" THEN TRUE
             ELSE HasIdentity(tcall.val.id) /\ FlagClear(tcall.val.id))

\* is_uploaded returned False for a resource that has an identity and whose
\* dirty flag was never cleared
C23_Witness ==
    /\ tcall.op = "is_uploaded"
    /\ tcall.val = ResV(Root)
    /\ HasIdentity(Root)
    /\ obj[Root].touched = "unset"
    /\ tcall.result = <<FALSE>>

\* C24: process_uploaded_resource(resource, url) assigns url as the identity
\* only when the resource has none, leaves the dirty flag clear and leaves
\* exactly one change observer registered on the resource, whatever was
\* called on it before; no other resource changes.  A field assignment to a
\* resource with that one observer sets its dirty flag.
C24_ProcessUploadedResource ==
    [][/\ tcall'.op = "process_uploaded_resource" =>
              /\ obj'[tcall'.val.id].url =
                     (IF obj[tcall'.val.id].url = NoneV THEN tcall'.url
                      ELSE obj[tcall'.val.id].url)
              /\ obj'[tcall'.val.id].touched = "false"
              /\ obj'[tcall'.val.id].listeners = 1
              /\ \A q \in Res \ {tcall'.val.id} : obj'[q] = obj[q]
       /\ (tcall'.op = "assign_field" /\ obj[tcall'.val.id].listeners = 1) =>
              obj'[tcall'.val.id].touched = "true"]_vars

\* process_uploaded_resource was called on a resource that had an identity
\* and an observer already: the identity is the old one, not the argument
C24_Witness ==
    /\ tcall.op = "process_uploaded_resource"
    /\ tcall.val = ResV(Root)
    /\ tcall.url = UrlV(ServerId(Root))
    /\ obj[Root].url = UrlV(PresetId(Root))
    /\ obj[Root].listeners = 1
    /\ obj[Root].touched = "false"

\* the resource objects in the list compute_children returns for r
ChildObjects(r) ==
    {q \in Res : \E i \in 1..Len(compute_children(fields, r)) :
                     compute_children(fields, r)[i] = ResV(q)}
\* the resources touch(r, recursive) is to mark
TouchSet(r, recursive) == IF recursive THEN {r} \cup ChildObjects(r) ELSE {r}

\* C25: touch(resource) sets the dirty flag of the resource and changes no
\* other resource; touch(resource, recursive=True) sets the dirty flag of
\* the resource and of every resource object compute_children(resource)
\* returns, and changes no resource outside that set (no ancestor, no
\* unrelated resource); nothing but the flag changes.
C25_Touch ==
    [][tcall'.op = "touch" =>
          \A q \in Res :
              IF q \in TouchSet(tcall'.val.id, tcall'.recursive)
              THEN obj'[q] = [obj[q] EXCEPT !.touched = "true"]
              ELSE obj'[q] = obj[q]]_vars

\* In the chain 1 -> 2 -> 3, where 2 also holds a URL string, touch(2,
\* recursive=True) has marked 2 and 3 and left the clean ancestor 1 clean.
C25_Witness ==
    /\ tcall.op = "touch"
    /\ tcall.val = ResV(2)
    /\ tcall.recursive
    /\ fields[1] = <<ResV(2)>>
    /\ fields[2] = <<ResV(3), ForeignUrl>>
    /\ obj[1].touched = "false"
    /\ obj[2].touched = "true"
    /\ obj[3].touched = "true"

\* the values a resource holds in its pointers
Held(r) == {fields[r][i] : i \in 1..Len(fields[r])}
\* the values reached from r over at most n pointers; only resource
\* objects have pointers to follow
RECURSIVE ReachedWithin(_, _)
ReachedWithin(r, n) ==
    IF n = 0 THEN {}
    ELSE Held(r) \cup UNION {ReachedWithin(v.id, n - 1) : v \in {w \in Held(r) : w.t = "res"}}
ReachedFrom(r) == ReachedWithin(r, Cardinality(Res))
\* the first position of value v in sequence s
FirstAt(s, v) == CHOOSE i \in 1..Len(s) : s[i] = v /\ \A j \in 1..(i - 1) : s[j] # v
Range(s) == {s[i] : i \in 1..Len(s)}
\* the values in the order the traversal of lines 152-164 meets them
Traversal(r) == walk_fields(fields, r, 1)

\* C26: the list compute_children(root) returns does not contain the root,
\* contains exactly the values reachable from the root over pointers (a URL
\* string is a value and leads nowhere), each of them once, and lists them
\* in the order in which the traversal met them first.
C26_ComputeChildren ==
    tcall.op = "compute_children" =>
        LET r == tcall.val.id
            list == tcall.result
        IN /\ ResV(r) \notin Range(list)
           /\ Range(list) = ReachedFrom(r)
           /\ \A i, j \in 1..Len(list) : list[i] = list[j] => i = j
           /\ \A i, j \in 1..Len(list) :
                  i < j => FirstAt(Traversal(r), list[i]) < FirstAt(Traversal(r), list[j])

\* The walker was called on 1 -> (2, 3), 2 -> (3, URL string): the traversal
\* meets 3, the URL string, 2 and 3 again, and the list holds 3 once, at its
\* first place.
C26_Witness ==
    /\ tcall.op = "compute_children"
    /\ tcall.val = ResV(1)
    /\ fields[1] = <<ResV(2), ResV(3)>>
    /\ fields[2] = <<ResV(3), ForeignUrl>>
    /\ tcall.result = <<ResV(3), ForeignUrl, ResV(2)>>

\* every resource object of sequence s stands after all the values that are
\* reachable from it
ChildrenBeforeParents(s) ==
    \A i \in 1..Len(s) : s[i].t = "res" =>
        \A d \in ReachedFrom(s[i].id) : \E j \in 1..(i - 1) : s[j] = d

\* C27: in the list compute_children returns, every resource object stands
\* after everything reachable from it, also when a shared resource is kept
\* at its first occurrence only; the list followed by the resource the
\* walker was called on (the scan order of upload) has the same property.
C27_ChildrenBeforeParents ==
    tcall.op = "compute_children" =>
        /\ ChildrenBeforeParents(tcall.result)
        /\ ChildrenBeforeParents(Append(tcall.result, tcall.val))

\* The walker was called on 1 -> (2, 3), 2 -> 3, where 3 is shared: 3 is
\* listed once, before its parent 2.
C27_Witness ==
    /\ tcall.op = "compute_children"
    /\ tcall.val = ResV(1)
    /\ fields[1] = <<ResV(2), ResV(3)>>
    /\ fields[2] = <<ResV(3)>>
    /\ tcall.result = <<ResV(3), ResV(2)>>

\* the server identity of an object: its URL or its links
Identified(o) == o.url # NoneV \/ o.links # NoneV
OwnUrl(o) == IF o.links # NoneV THEN SelfOf(o.links) ELSE o.url
DeleteRaised == tcall'.result[1] = "ValueError"
DeleteSent == tcall'.url # NoneV

\* C28: delete of a URL string sends one DELETE to that URL; delete of a
\* resource that has a server identity sends one DELETE to the resource's
\* own URL; delete of a resource without identity raises and sends nothing;
\* a non-success response raises and leaves the identity as it was; after a
\* delete that returned, the resource has no server identity.
C28_Delete ==
    [][tcall'.op = "delete" =>
          /\ tcall'.val.t = "url" => tcall'.url = tcall'.val
          /\ tcall'.val.t = "res" =>
                 LET before == obj[tcall'.val.id]
                     after == obj'[tcall'.val.id]
                 IN /\ Identified(before) => tcall'.url = OwnUrl(before)
                    /\ ~Identified(before) => DeleteRaised /\ ~DeleteSent
                    /\ DeleteRaised => after.url = before.url /\ after.links = before.links
                    /\ ~DeleteRaised => ~Identified(after)
          /\ tcall'.result[2] = "failed" => DeleteRaised]_vars

\* the part of C28 that the code meets: the cases of a URL string and of a
\* resource whose identity is its _links
C28_DeleteByLinks ==
    [][tcall'.op = "delete" =>
          /\ tcall'.val.t = "url" => tcall'.url = tcall'.val
          /\ tcall'.val.t = "res" =>
                 LET before == obj[tcall'.val.id]
                     after == obj'[tcall'.val.id]
                 IN /\ before.links # NoneV => tcall'.url = SelfOf(before.links)
                    /\ before.links = NoneV => DeleteRaised /\ ~DeleteSent
                    /\ DeleteRaised => after = before
                    /\ ~DeleteRaised => after.links = NoneV
          /\ tcall'.result[2] = "failed" => DeleteRaised]_vars

ValidationRaised == upc \in {"raising", "raised"} /\ uerr.kind = "ValidationError"

Positions == {p \in DKeys \X (1..MaxPointers) :
                 built[p[1]].t = "object" /\ p[2] <= Len(built[p[1]].fields)}
\* the value the payload held in a position, and what the position holds
\* in the end; ResV(u) is the object the table holds for key u
RawAt(p) == RawLinks(p[1])[p[2]]
HeldAt(p) == built[p[1]].fields[p[2]]

\* C30: after a recursive download has returned, two pointer positions whose
\* payload values were the same URL hold the same value, and where that value
\* is an object it is the one object the lookup table holds for that URL.
C30_OneObjectPerUrl ==
    (dpc = "returned" /\ options.recursive) =>
        \A p, q \in Positions :
            RawAt(p) = RawAt(q) =>
                /\ HeldAt(p) = HeldAt(q)
                /\ HeldAt(p).t = "res" =>
                       HeldAt(p) = ResV(RawAt(p)) /\ built[RawAt(p)].t = "object"

\* A recursive download of 1 -> (2, 3), 2 -> (3, 3) has returned: the three
\* positions that held the URL of 3 hold the object built for it.
C30_Witness ==
    /\ dpc = "returned"
    /\ options.recursive
    /\ server[1].links = <<2, 3>>
    /\ server[2].links = <<3, 3>>
    /\ built[1].fields = <<ResV(2), ResV(3)>>
    /\ built[2].fields = <<ResV(3), ResV(3)>>
    /\ built[3].t = "object"

\* the resources of the call: the root and the resource objects of the walker
UploadSet == {r \in Res : Reachable(fields, r)}
AllDone == \A r \in UploadSet : IsDone(r)

\* C31: when every resource validates and every task completes with a
\* success response, an upload call that has started eventually leaves both
\* loops and returns, with the root and every resource of the walker's output
\* DONE.
C31_UploadReturnsDone ==
    (upc = "scan") ~> (upc = "returned" /\ AllDone)

\* the part of C31 that the code meets: the call leaves both loops, with
\* every resource DONE
C31_LoopsEndDone ==
    (upc = "scan") ~> (upc \in {"returned", "raised"} /\ AllDone)

\* which statements of the download loop can execute, with the inline executor
LoopStatements ==
    <<ENABLED DStart,
      ENABLED (\E okP, okV \in BOOLEAN : DSubmitMetaSync(okP, okV)),
      ENABLED DPollMetaPending,
      ENABLED DPollMetaResult,
      ENABLED DPollMetaRaises,
      ENABLED DSkip,
      ENABLED (\E okB \in BOOLEAN : DSubmitByteSync(okB)),
      ENABLED DPollBytePending,
      ENABLED DPollByteResult,
      ENABLED DScanEnd,
      ENABLED DFinish,
      ENABLED DRaise>>
WorkerCanStep == ENABLED DWorkers \/ ENABLED DSubmitMetaPool \/ ENABLED DSubmitBytePool
\* the task a step has submitted
Submits == Len(dtasks') = Len(dtasks) + 1
Submitted_key == dtasks'[Len(dtasks')].key
Snapshot == SortedKeys(dcopy)

\* C32: with the inline executor the run is determined by the URL and the
\* transport responses: at most one statement of the loop can execute and no
\* worker runs beside it; every task is submitted for the key at the current
\* position of the snapshot, all keys before that position are smaller and
\* all keys after it are greater, so the submissions of one scan are in
\* ascending key order; and the snapshot changes only when a scan starts,
\* where it is a copy of the table.
C32_FetchOrder ==
    /\ [](options.executor = "sync" =>
              /\ Cardinality({i \in 1..Len(LoopStatements) : LoopStatements[i]}) <= 1
              /\ ~WorkerCanStep)
    /\ [][(options.executor = "sync" /\ Submits) =>
              /\ dcopy' = dcopy
              /\ didx' = didx + 1
              /\ Snapshot[didx] = Submitted_key
              /\ \A j \in 1..Len(Snapshot) :
                     /\ j < didx => Snapshot[j] < Submitted_key
                     /\ j > didx => Snapshot[j] > Submitted_key]_vars
    /\ [][(options.executor = "sync" /\ dcopy' # dcopy) =>
              didx' = 1 /\ dcopy' = lookup_dict']_vars

\* An inline download of 1 -> (2, 3), 2 -> 3 has returned: the fetches were
\* made for 1 in the first scan and for 2, then 3, in the second.
C32_Witness ==
    /\ dpc = "returned"
    /\ options.executor = "sync"
    /\ options.url = 1
    /\ server[1].links = <<2, 3>>
    /\ server[2].links = <<3>>
    /\ server[3].kind = "plain"
    /\ Len(dtasks) = 3
    /\ dtasks[1].key = 1
    /\ dtasks[2].key = 2
    /\ dtasks[3].key = 3

\* the step gives resource r a server identity or makes it DONE
Finalizes(r) == (~IsDone(r) /\ IsDone(r)') \/ obj'[r].url # obj[r].url
\* r holds the handle of its own write task, submitted in this call and done
OwnHandleDone(r) ==
    /\ obj[r].future_links # 0
    /\ tasks[obj[r].future_links].kind = "write"
    /\ tasks[obj[r].future_links].res = r
    /\ tasks[obj[r].future_links].state = "done"
    /\ Submitted(r)
ForwardOnly(r) ==
    /\ IsDone(r) => IsDone(r)'
    /\ obj[r].future_links # 0 => obj'[r].future_links = obj[r].future_links
    /\ Finalizes(r) =>
           /\ OwnHandleDone(r)
           /\ obj'[r].url = IF obj[r].url = NoneV
                             THEN tasks[obj[r].future_links].result
                             ELSE obj[r].url
           /\ finlog' = finlog \cup {[res |-> r, handle |-> obj[r].future_links]}

\* C33: during an upload call a resource that is DONE stays DONE, a resource
\* that holds a handle keeps it, and a resource receives its identity and a
\* clear dirty flag only in a step that found the handle of its own write
\* task, submitted in this call, done and took that handle's result.
C33_ForwardOnly ==
    [][InCall => \A r \in Res : ForwardOnly(r)]_vars

\* the part of C33 that the code meets: the same in the first call on
\* resources that hold no handle of an earlier call
C33_ForwardOnlyFirstCall ==
    [][(InCall /\ NoStaleHandles) => \A r \in Res : ForwardOnly(r)]_vars

\* C35: every resource finalized during an upload call was finalized from
\* the handle of a write task that was submitted during that call; a handle
\* an earlier call left on the resource is never used.
C35_NoStaleHandleUsed ==
    \A e \in finlog : tasks[e.handle].call = calls /\ Submitted(e.res)

Max(S) == CHOOSE x \in S : \A y \in S : y <= x
\* the number of resources of the longest chain, from a resource down through
\* its descendants, of resources that were not uploaded when the call started
RECURSIVE ChainFrom(_)
ChainFrom(r) == 1 + Max({ChainFrom(d) : d \in Descendants(r) \cap ToUpload} \cup {0})
LongestChain == Max({ChainFrom(r) : r \in ToUpload} \cup {0})
FinalizedBelow(p) == {hist.finscan[c] : c \in {d \in Descendants(p) : hist.finscan[d] > 0}}

\* C34: with the inline executor the scan loop of an upload call ends within
\* LongestChain + 1 full scans; a resource is finalized in a later scan than
\* the one that submitted its task; and a parent is submitted in the scan in
\* which the last of its descendants is finalized.
C34_ScanBound ==
    (executor = "sync" /\ upc \in {"scan", "drain", "raising"}) =>
        /\ hist.scans <= LongestChain + 1
        /\ \A r \in Res :
               (hist.subscan[r] > 0 /\ hist.finscan[r] > 0) =>
                   hist.finscan[r] > hist.subscan[r]
        /\ \A p \in Res :
               (hist.subscan[p] > 0 /\ FinalizedBelow(p) # {}) =>
                   hist.subscan[p] = Max(FinalizedBelow(p))

\* The chain 1 -> 2 -> 3 of new resources was uploaded inline: 3, 2 and 1
\* were submitted in scans 1, 2 and 3 and finalized in scans 2, 3 and 4, and
\* the loop ended with the fourth scan.
C34_Witness ==
    /\ IsChain
    /\ executor = "sync"
    /\ upc = "drain"
    /\ LongestChain = 3
    /\ hist.scans = 4
    /\ hist.subscan = <<3, 2, 1>>
    /\ hist.finscan = <<4, 3, 2>>

\* C36: after a download with copy=False has returned, every materialized
\* resource has its URL key as server identity and a clear dirty flag; after
\* a download with copy=True no materialized resource has a server identity.
C36_DownloadedInSync ==
    dpc = "returned" =>
        \A k \in DKeys : built[k].t = "object" =>
            IF options.copy
            THEN built[k].url = NoneV
            ELSE built[k].url = UrlV(k) /\ built[k].touched = "false"

\* the part of C36 that the code meets: the identity is the URL key unless
\* copy, and a resource none of whose pointer fields was replaced by an
\* object is clean
C36_InSyncUnlessRewritten ==
    dpc = "returned" =>
        \A k \in DKeys : built[k].t = "object" =>
            IF options.copy
            THEN built[k].url = NoneV
            ELSE /\ built[k].url = UrlV(k)
                 /\ (\A i \in 1..Len(built[k].fields) : built[k].fields[i].t # "res") =>
                        built[k].touched = "false"

InQueue(h) == \E i \in 1..Len(fileq) : fileq[i] = h
\* the write tasks of this call that reported done after a success response
\* to a request for a resource with a binary payload
PayloadWritesDone ==
    {w \in 1..Len(tasks) :
        /\ tasks[w].kind = "write" /\ tasks[w].call = calls
        /\ tasks[w].state = "done" /\ tasks[w].ok
        /\ HasPayload(fields, tasks[w].res)
        /\ \E q \in wlog : q.res = tasks[w].res /\ q.method \in WriteMethods /\ q.ok}

\* C37: with the worker pool, in every interleaving: a write task that
\* reports done has its byte-upload handle among the handles of the call;
\* while the scan loop runs every byte-upload handle of the call is in the
\* queue, so the queue holds them all when the loop exits; during the drain a
\* handle is out of the queue only when it is done with success; and the
\* call returns only with the queue empty and every handle done.
C37_HandlesQueuedBeforeDone ==
    (executor = "pool" /\ calls > 0) =>
        /\ \A w \in PayloadWritesDone :
               \E h \in FileTasksOfCall : tasks[h].res = tasks[w].res
        /\ upc = "scan" => \A h \in FileTasksOfCall : InQueue(h)
        /\ upc = "drain" =>
               \A h \in FileTasksOfCall :
                   InQueue(h) \/ (tasks[h].state = "done" /\ tasks[h].ok)
        /\ upc = "returned" =>
               /\ fileq = << >>
               /\ \A h \in FileTasksOfCall : tasks[h].state = "done" /\ tasks[h].ok

\* The pool has run the write task of the file resource 3 to its end while
\* the scan loop is running: the byte upload is queued and its handle is in
\* the queue, before the scan has finalized 3.
C37_Witness ==
    /\ executor = "pool"
    /\ upc = "scan"
    /\ ~IsDone(3)
    /\ \E w \in PayloadWritesDone : tasks[w].res = 3
    /\ \E h \in FileTasksOfCall :
           tasks[h].res = 3 /\ tasks[h].state = "queued" /\ InQueue(h)

\* a task that was submitted to the pool and has not returned or raised
UPending == \E h \in 1..Len(tasks) : tasks[h].state # "done"
DPending == \E h \in 1..Len(dtasks) : dtasks[h].state # "done"
\* C38: with a pool of one worker, whenever a task of the pool is unfinished
\* the worker has a step to take (the running task never waits for a queued
\* one), and every started upload call and download call ends.
C38_OneWorkerTerminates ==
    /\ [](UPending => ENABLED <<UWorkersOne>>_vars)
    /\ [](DPending => ENABLED <<DWorkersOne>>_vars)
    /\ (upc = "scan") ~> (upc \in {"returned", "raised"})
    /\ (dpc = "scan") ~> DEnded

\* A write task of the one-worker pool has submitted the byte upload of the
\* file resource and returned without waiting for it: the worker is running
\* the next write task while that byte upload is still queued.
C38_Witness ==
    /\ executor = "pool"
    /\ \E w, h, g \in 1..Len(tasks) :
           /\ tasks[w].kind = "write" /\ tasks[w].state = "done" /\ tasks[w].res = 3
           /\ tasks[h].kind = "file" /\ tasks[h].state = "queued" /\ tasks[h].res = 3
           /\ tasks[g].kind = "write" /\ tasks[g].state = "responded"

\* C39 as stated: the executor a call runs on, which from line 207 (540) on
\* is the caller's executor when one was supplied, has been shut down with
\* wait=True when the call has ended, by returning or by raising: shutdown
\* was called and no task of the executor is unfinished.
C39_SuppliedExecutorShutDown ==
    /\ (calls > 0 /\ Idle) => (ushut /\ AllTasksDone)
    /\ DEnded => (dshut /\ AllDTasksDone)
\* the same for every call that reached its try statement (line 216, 545)
C39_ShutDownAfterTryEntered ==
    /\ (calls > 0 /\ Idle /\ sublog # << >>) => (ushut /\ AllTasksDone)
    /\ (calls > 0 /\ Idle /\ ~ushut) => (upc = "raised" /\ uerr.kind = "TypeError")
    /\ DEnded => (dshut /\ AllDTasksDone)

\* resource r had an identity and a clear dirty flag when the call started
InSyncAtStart(r) ==
    hist.start[r].url # NoneV /\ hist.start[r].touched = "false"
\* the resources of the call: the root and its descendants
OfCall(r) == r = Root \/ r \in Descendants(Root)

\* C40: from the start of a call until the caller's next assignment, every
\* submitted write task and every request belongs to a resource of the root's
\* graph that was not in sync when the call started, no request goes to the
\* URL of a URL-string entry, and a resource that was in sync at the start
\* has its identity and its clear flag unchanged, was not submitted and was
\* not finalized, whatever happens to its children and parents.
C40_InSyncUntouched ==
    (calls > 0 /\ hist.mutated = {}) =>
        /\ \A i \in 1..Len(sublog) : OfCall(sublog[i]) /\ ~InSyncAtStart(sublog[i])
        /\ \A q \in wlog : /\ OfCall(q.res) /\ ~InSyncAtStart(q.res)
                           /\ q.target # ForeignUrl
        /\ \A r \in Res :
               InSyncAtStart(r) =>
                   /\ obj[r].url = hist.start[r].url
                   /\ obj[r].links = hist.start[r].links
                   /\ obj[r].touched = "false"
                   /\ ~Submitted(r)
                   /\ \A e \in finlog : e.res # r

\* A second call on the chain 1 -> 2 -> 3 has ended: the parent and the
\* child of 2 were submitted and written in it, and 2, in sync when the call
\* started, was left alone.
C40_Witness ==
    /\ IsChain
    /\ calls = 2
    /\ upc \in {"returned", "raised"}
    /\ uerr.kind # "TypeError"
    /\ InSyncAtStart(2)
    /\ Submitted(1) /\ Submitted(3)
    /\ \E q \in wlog : q.res = 1
    /\ \E q \in wlog : q.res = 3

====
